---- MODULE Spec2Model ----
(***************************************************************************)
(* The LinkedIn job scraper's extraction-and-enrichment pipeline            *)
(* (src/src/linkdin/scraper.py): the card cascade, the listing walk, the    *)
(* batched detail enrichment and the upsert into the jobs table.            *)
(*                                                                          *)
(* The module holds one state machine per stage.  Each stage has its own    *)
(* program counter and its own specification, whose Init draws the stage's  *)
(* inputs from bounded sets:                                                *)
(*   SpecCards   extract_job_cards applied to one page markup               *)
(*   SpecFields  extract_job_data_from_card applied to one card             *)
(*   SpecUrl     construct_search_url over the pages of a search            *)
(*   SpecWalk    scrape_job_listings                                        *)
(*   SpecEnrich  process_all_jobs / process_job_batch / fetch_job_details   *)
(*   SpecBatch   process_job_batch called with a batch of any jobs          *)
(*   SpecSave    save_jobs_to_database under session_scope                  *)
(*   SpecRun     async_scrape_linkedin_jobs, a stage being one step         *)
(* and, from src/src/ai_service/openai/generate_score.py,                   *)
(*   SpecAnalyze analyze_resume_job_match                                   *)
(***************************************************************************)
EXTENDS Integers, Sequences, FiniteSets, TLC

VARIABLES
    \* ---- extract_job_cards on one markup
    cards_pc,        \* "call" before the call, "returned" after it
    page_markup,     \* the markup the renderer holds (driver.page_source)
    job_cards,       \* the value extract_job_cards returned
    \* ---- extract_job_data_from_card on one card
    field_pc,        \* "call" before the call, "returned" after it
    job_card,        \* the card
    card_result,     \* what the call gave: a job entry or an exception
    \* ---- construct_search_url over the pages of a search
    search_pc,       \* "idle" | "loop"
    search_title,    \* the job_title argument, as its pieces
    search_location, \* the location argument, as its pieces
    search_pages,    \* the num_pages argument
    search_page,     \* the page whose URL is built next
    search_urls,     \* history: the URLs built, in page order
    \* ---- scrape_job_listings
    walk_pc,         \* "idle" | "loop" | "after_loop" | "returned"
    num_pages,       \* the num_pages argument
    page,            \* the loop variable of `for page in range(num_pages)`
    all_jobs,        \* the job dicts: the heap every list of jobs points into
    loaded,          \* index of the page the driver shows (NoPage: none yet)
    attempted,       \* history: the page indices navigated to, in order
    page_log,        \* history: per attempted page, what happened on it
    origin,          \* history: per entry of all_jobs, "card" or "fallback"
    fallback_on,     \* history: the pages the generic pass was applied to
    \* ---- process_all_jobs
    enrich_pc,       \* "idle" | "start" | "batch" | "gather" | "returned"
    batch_size,      \* the batch_size argument
    input_jobs,      \* history: all_jobs as it was handed to process_all_jobs
    valid_jobs,      \* indices into all_jobs of the jobs with an identifier
    batches,         \* the slices of valid_jobs
    batch_no,        \* index of the batch being processed (1-based)
    tasks,           \* process_job_batch: the identifiers the fetches were issued with
    task_state,      \* per task: "pending" | "running" | "done"
    results,         \* per task: the dict fetch_job_details returned
    processed_jobs,  \* indices of the jobs of the batches already merged
    all_processed_jobs, \* the list process_all_jobs returns (indices)
    arrival,         \* the task indices in the order the fetches completed
    fetch_log,       \* history: per <<batch, task>>, the fetch started for it
    peak_in_flight,  \* history: the largest number of fetches running at once
    writes,          \* history: per job of all_jobs, the job.update calls made on it
    renderers,       \* the browser instances alive
    \* ---- save_jobs_to_database
    save_pc,         \* "idle" | "records" | "commit" | "returned"
    jobs,            \* the list handed to save_jobs_to_database
    job_no,          \* index of the next record of the loop (1-based)
    store,           \* the committed rows of linkedin_jobs, keyed by job_id
    txn,             \* the rows as the open session sees them
    clock,           \* datetime.now(), in ticks
    current_time,    \* the timestamp taken at the start of the call
    successful_inserts,
    successful_updates,
    failed_operations,
    faults,          \* number of store faults injected so far
    save_log,        \* history: per record handled in this call, its outcome
    calls,           \* history: one summary per finished call
    \* ---- async_scrape_linkedin_jobs
    run_pc,          \* "idle" | "setup" | "scrape" | "process" | "save" |
                     \* "handler" | "handler_save" | "finally" | "done"
    run_batch_size,  \* the batch_size argument of the run
    run_processed,   \* the caller's processed_jobs (indices into all_jobs)
    files,           \* the export files: main and partial, Absent or the rows
    exports,         \* history: the calls of save_jobs_to_csv
    run_cards,       \* history: the structured cards the walk located
    run_error,       \* history: the stage whose exception reached the handler
    run_log,         \* history: the warnings and errors logged
    \* ---- analyze_resume_job_match
    an_pc,           \* "idle" | "call" | "loop" | "done"
    max_retries,     \* the max_retries argument
    attempt,         \* the loop variable of `for attempt in range(max_retries)`
    job_data_dict,   \* what get_job_data returned: "row" or None
    analyzed_jobs,   \* the committed rows of analyzed_jobs, keyed by job_id
    analyzed_txn,    \* the rows as the open session sees them
    api_calls,       \* history: the responses of the API calls made, in order
    saves,           \* history: the calls of save_analysis_result
    an_result        \* how the call ended and what it returned

cardVars   == <<cards_pc, page_markup, job_cards>>
fieldVars  == <<field_pc, job_card, card_result>>
urlVars    == <<search_pc, search_title, search_location, search_pages,
                search_page, search_urls>>
walkVars   == <<walk_pc, num_pages, page, loaded, attempted, page_log, origin,
                fallback_on>>
enrichVars == <<enrich_pc, batch_size, input_jobs, valid_jobs, batches, batch_no,
                tasks, task_state, results, arrival, processed_jobs,
                all_processed_jobs, fetch_log, peak_in_flight, writes, renderers>>
saveVars   == <<save_pc, jobs, job_no, store, txn, clock, current_time,
                successful_inserts, successful_updates, failed_operations,
                faults, save_log, calls>>
runVars    == <<run_pc, run_batch_size, run_processed, files, exports, run_cards,
                run_error, run_log>>
analyzeVars == <<an_pc, max_retries, attempt, job_data_dict, analyzed_jobs,
                 analyzed_txn, api_calls, saves, an_result>>
vars       == <<cardVars, fieldVars, urlVars, walkVars, all_jobs, enrichVars,
                saveVars, runVars, analyzeVars>>

\* what a stage leaves alone
notCards  == <<fieldVars, urlVars, walkVars, all_jobs, enrichVars, saveVars, runVars,
               analyzeVars>>
notFields == <<cardVars, urlVars, walkVars, all_jobs, enrichVars, saveVars, runVars,
               analyzeVars>>
notUrl    == <<cardVars, fieldVars, walkVars, all_jobs, enrichVars, saveVars, runVars,
               analyzeVars>>
notWalk   == <<cardVars, fieldVars, urlVars, enrichVars, saveVars, runVars, analyzeVars>>
notEnrich == <<cardVars, fieldVars, urlVars, walkVars, saveVars, runVars, analyzeVars>>
notSave   == <<cardVars, fieldVars, urlVars, walkVars, all_jobs, enrichVars, runVars,
               analyzeVars>>
notAnalyze == <<cardVars, fieldVars, urlVars, walkVars, all_jobs, enrichVars, saveVars,
                runVars>>
\* of the stages' variables the run writes all_jobs, origin, store, clock and
\* calls
notRun    == <<cardVars, fieldVars, urlVars, walk_pc, num_pages, page, loaded, attempted, page_log,
               fallback_on, enrichVars, save_pc, jobs, job_no, txn, current_time,
               successful_inserts, successful_updates, failed_operations, faults,
               save_log, analyzeVars>>

(***************************************************************************)
(* Bounds of the model                                                      *)
(***************************************************************************)
NumElems == 4     \* elements of a page that a card strategy can select
MaxPages == 2     \* largest num_pages
MaxJobs == 3      \* longest list handed to process_all_jobs / save
MaxBatchSize == 2 \* largest batch_size
MaxFaults == 1    \* store operations that may raise in one run
MaxCalls == 2     \* calls of save_jobs_to_database in one run
MaxRunCards == 2  \* cards one whole run locates
MaxSearchPages == 3 \* largest num_pages of a search whose URLs are built
MaxPieces == 3    \* pieces (words and spaces) of a search text
MaxRetries == 3   \* largest max_retries

(***************************************************************************)
(* Values                                                                   *)
(***************************************************************************)
NA == "N/A"           \* the sentinel of an unresolved field
Unknown == "unknown"  \* company/location of a generic-fallback record
None == "None"        \* Python's None
NoPage == -1

JobIds == {"101", "102"}          \* resolved identifiers
IdValues == JobIds \cup {NA}

DetailFields == {"job_description", "seniority_level", "employment_type",
                 "job_function", "industries", "applicants", "date_posted"}

\* helpers on sequences
Range(s) == {s[i] : i \in 1..Len(s)}

SeqsUpTo(S, n) == UNION {[1..k -> S] : k \in 0..n}

RECURSIVE SelectIdx(_, _, _)
\* the indices i of s, in increasing order from i on, with P[s[i]]
SelectIdx(s, i, ok) ==
    IF i > Len(s) THEN <<>>
    ELSE (IF s[i] \in ok THEN <<i>> ELSE <<>>) \o SelectIdx(s, i + 1, ok)

RECURSIVE Flatten(_)
\* the concatenation of a list of lists
Flatten(ss) == IF ss = <<>> THEN <<>> ELSE Head(ss) \o Flatten(Tail(ss))

RECURSIVE SortedSeq(_)
\* the elements of a finite set of integers in increasing (document) order
SortedSeq(S) ==
    IF S = {} THEN <<>>
    ELSE LET m == CHOOSE x \in S : \A y \in S : x <= y
         IN  <<m>> \o SortedSeq(S \ {m})

(***************************************************************************)
(* Page markup, as the card cascade reads it.  An element is a <div> or an  *)
(* <li>; soup.find_all returns the matching elements in document order.     *)
(***************************************************************************)
Elems == 1..NumElems
Divs  == {e \in Elems : e % 2 = 1}
Lis   == {e \in Elems : e % 2 = 0}
NoList == {0}   \* soup.find('ul', ...) found no results list

Markups ==
    [data_job_id  : SUBSET Divs,   \* div elements carrying data-job-id
     occludable   : SUBSET Lis,    \* li.occludable-update
     base_card    : SUBSET Divs,   \* div.base-card
     card_container : SUBSET Divs, \* div whose class contains job-card-container
     results_list : {NoList} \cup SUBSET Lis]  \* the <li>s of the results <ul>

\* Methods 1..5 of extract_job_cards, each as its find_all result
Method1(m) == SortedSeq(m.data_job_id)
Method2(m) == SortedSeq(m.occludable)
Method3(m) == SortedSeq(m.base_card)
Method4(m) == SortedSeq(m.card_container)
Method5(m) == IF m.results_list = NoList THEN <<>> ELSE SortedSeq(m.results_list)

Strategy(m, k) ==
    CASE k = 1 -> Method1(m)
      [] k = 2 -> Method2(m)
      [] k = 3 -> Method3(m)
      [] k = 4 -> Method4(m)
      [] k = 5 -> Method5(m)

\* extract_job_cards with the results of methods 1 and 3 concatenated
extract_job_cards_merged(m) ==
    IF Method1(m) # <<>> /\ Method3(m) # <<>> THEN Method1(m) \o Method3(m)
    ELSE IF Method1(m) # <<>> THEN Method1(m)
    ELSE IF Method2(m) # <<>> THEN Method2(m)
    ELSE IF Method3(m) # <<>> THEN Method3(m)
    ELSE IF Method4(m) # <<>> THEN Method4(m)
    ELSE Method5(m)

extract_job_cards(m) ==
    LET c1 == Method1(m)
        c2 == IF c1 = <<>> THEN Method2(m) ELSE c1
        c3 == IF c2 = <<>> THEN Method3(m) ELSE c2
        c4 == IF c3 = <<>> THEN Method4(m) ELSE c3
        c5 == IF c4 = <<>>
              THEN (IF m.results_list # NoList THEN SortedSeq(m.results_list) ELSE c4)
              ELSE c4
    IN  c5

(***************************************************************************)
(* extract_job_cards applied to one markup                                  *)
(***************************************************************************)
ExtractJobCards ==
    /\ cards_pc = "call"
    /\ job_cards' = extract_job_cards(page_markup)
    /\ cards_pc' = "returned"
    /\ UNCHANGED <<page_markup, notCards>>

NextCards == ExtractJobCards

(***************************************************************************)
(* Job dicts                                                                *)
(***************************************************************************)
Absent == "<absent>"   \* a key the dict does not hold

MkJob(id, title, company, location, url) ==
    [Job_ID |-> id, Job_Title |-> title, Company_Name |-> company,
     Location |-> location, Job_URL |-> url,
     job_description |-> NA, seniority_level |-> NA, employment_type |-> NA,
     job_function |-> NA, industries |-> NA, applicants |-> NA,
     date_posted |-> NA, date_scraped |-> Absent]

(***************************************************************************)
(* A job card, as the field cascades read it.  Each of the three steps of   *)
(* the title, company and location cascades either finds its target         *)
(* ("found": the step's own text, never the literal 'N/A'), finds nothing    *)
(* ("absent") or throws ("raises").  The card's link is the href of its      *)
(* anchor to '/jobs/view/', Absent without one, "raises" when the lookup     *)
(* throws.                                                                   *)
(***************************************************************************)
StepResults == {"absent", "found", "raises"}

TitleTexts    == <<"Engineer (aria-label)", "Engineer (strong)", "Engineer (title class)">>
CompanyTexts  == <<"Acme (company span)", "Acme (subtitle div)", "Acme (h4)">>
LocationTexts == <<"Remote (location li)", "Remote (ltr span)", "Remote (location class)">>

base_linkedin_url == "https://www.linkedin.com"

Hrefs == {"/jobs/view/engineer-at-acme-101?refId=1",
          "https://www.linkedin.com/jobs/view/analyst-102/?refId=1",
          "https://www.linkedin.com/jobs/view/102/"}

\* job_link.startswith('http')
StartsWithHttp(href) ==
    href \in {"https://www.linkedin.com/jobs/view/analyst-102/?refId=1",
              "https://www.linkedin.com/jobs/view/102/"}

\* '/jobs/view/' in job_link
InJobsView(job_link) ==
    job_link \in {"/jobs/view/engineer-at-acme-101?refId=1",
                  "https://www.linkedin.com/jobs/view/engineer-at-acme-101?refId=1",
                  "https://www.linkedin.com/jobs/view/analyst-102/?refId=1",
                  "https://www.linkedin.com/jobs/view/102/",
                  "https://www.linkedin.com/jobs/view/x-101?refId=1",
                  "/jobs/view/data-scientist-at-3m-102?refId=1"}

\* the digits of what lies between the last 'at-' and the '?' of the first
\* '/'-part of the link that holds both; "" when no part does
AtPartDigits(job_link) ==
    CASE job_link = "https://www.linkedin.com/jobs/view/engineer-at-acme-101?refId=1"
           -> "101"
      [] job_link = "/jobs/view/data-scientist-at-3m-102?refId=1"
           -> "3102"
      [] OTHER -> ""

\* re.search(r'-(\d+)/?\?', job_link)
RegexId(job_link) ==
    CASE job_link = "https://www.linkedin.com/jobs/view/engineer-at-acme-101?refId=1"
           -> "101"
      [] job_link = "https://www.linkedin.com/jobs/view/analyst-102/?refId=1"
           -> "102"
      [] job_link = "https://www.linkedin.com/jobs/view/x-101?refId=1"
           -> "101"
      [] job_link = "/jobs/view/data-scientist-at-3m-102?refId=1"
           -> "102"
      [] OTHER -> Absent

AllCards ==
    [data_job_id : {Absent, "101"},        \* the card's data-job-id attribute
     title : [1..3 -> StepResults],
     company : [1..3 -> StepResults],
     location : [1..3 -> StepResults],
     link : {Absent, "raises"} \cup Hrefs,
     url_parse : {"ok", "raises"}]         \* re.search on the link throws

\* the lookups of a card that throw
Throwing(card) ==
    {<<"title", k>> : k \in {k \in 1..3 : card.title[k] = "raises"}}
    \cup {<<"company", k>> : k \in {k \in 1..3 : card.company[k] = "raises"}}
    \cup {<<"location", k>> : k \in {k \in 1..3 : card.location[k] = "raises"}}
    \cup (IF card.link = "raises" THEN {<<"url", 1>>} ELSE {})
    \cup (IF card.url_parse = "raises" THEN {<<"identifier", 3>>} ELSE {})

\* the cards with at most one throwing lookup
Cards == {card \in AllCards : Cardinality(Throwing(card)) <= 1}

RECURSIVE CascadeUnguarded(_, _, _, _, _)
\* the steps run one after the other whatever the field holds: the last
\* step that finds its target wins
CascadeUnguarded(steps, texts, k, value, consulted) ==
    IF k > Len(steps)
    THEN [value |-> value, raised |-> FALSE, consulted |-> consulted]
    ELSE CASE steps[k] = "raises" ->
                [value |-> value, raised |-> TRUE, consulted |-> consulted \cup {k}]
           [] steps[k] = "found" ->
                CascadeUnguarded(steps, texts, k + 1, texts[k], consulted \cup {k})
           [] OTHER ->
                CascadeUnguarded(steps, texts, k + 1, value, consulted \cup {k})

RECURSIVE Cascade(_, _, _, _, _)
\* steps k.. of a field's cascade: a step runs only `if field == 'N/A'`; a
\* lookup that throws ends the function with the exception
Cascade(steps, texts, k, value, consulted) ==
    IF k > Len(steps)
    THEN [value |-> value, raised |-> FALSE, consulted |-> consulted]
    ELSE IF value # NA
    THEN Cascade(steps, texts, k + 1, value, consulted)
    ELSE CASE steps[k] = "raises" ->
                [value |-> value, raised |-> TRUE, consulted |-> consulted \cup {k}]
           [] steps[k] = "found" ->
                Cascade(steps, texts, k + 1, texts[k], consulted \cup {k})
           [] OTHER ->
                Cascade(steps, texts, k + 1, value, consulted \cup {k})

extract_job_title(card) == Cascade(card.title, TitleTexts, 1, NA, {})

\* the company cascade without its `if company_name == 'N/A'` tests
extract_company_name_unguarded(card) ==
    CascadeUnguarded(card.company, CompanyTexts, 1, NA, {})

extract_company_name(card) == Cascade(card.company, CompanyTexts, 1, NA, {})

extract_job_location(card) == Cascade(card.location, LocationTexts, 1, NA, {})

extract_job_url(card) ==
    CASE card.link = "raises" -> [value |-> NA, raised |-> TRUE]
      [] card.link = Absent -> [value |-> NA, raised |-> FALSE]
      [] OTHER ->
           [value |-> IF StartsWithHttp(card.link) THEN card.link
                      ELSE base_linkedin_url \o card.link,
            raised |-> FALSE]

\* step 1: the data-job-id attribute; else, from the link, step 2: the
\* 'at-' part, step 3: the regular expression, both under one try block
\* whose handler logs a warning (warned)
extract_job_id(card, job_link) ==
    IF card.data_job_id # Absent
    THEN [value |-> card.data_job_id, consulted |-> {1}, warned |-> FALSE]
    ELSE IF job_link # NA /\ InJobsView(job_link)
    THEN (IF AtPartDigits(job_link) # ""
          THEN [value |-> AtPartDigits(job_link), consulted |-> {1, 2},
                warned |-> FALSE]
          ELSE IF card.url_parse = "raises"
          THEN [value |-> NA, consulted |-> {1, 2, 3}, warned |-> TRUE]
          ELSE IF RegexId(job_link) # Absent
          THEN [value |-> RegexId(job_link), consulted |-> {1, 2, 3},
                warned |-> FALSE]
          ELSE [value |-> NA, consulted |-> {1, 2, 3}, warned |-> FALSE])
    ELSE [value |-> NA, consulted |-> {1}, warned |-> FALSE]

\* raised: one of the extractors ended in an exception and no job entry was
\* built; consulted: the steps each cascade ran
extract_job_data_from_card(card) ==
    LET t == extract_job_title(card)
        u == extract_job_url(card)
        c == extract_company_name(card)
        l == extract_job_location(card)
        i == extract_job_id(card, u.value)
    IN  [raised |-> t.raised \/ u.raised \/ c.raised \/ l.raised,
         job |-> MkJob(i.value, t.value, c.value, l.value, u.value),
         consulted |-> [title |-> t.consulted, company |-> c.consulted,
                        location |-> l.consulted, identifier |-> i.consulted]]

Steps(a, b, c) == <<a, b, c>>

\* the cards the pages of a walk hold
CardFacts ==
    {[data_job_id |-> "101", title |-> Steps("found", "absent", "found"),
      company |-> Steps("found", "absent", "absent"),
      location |-> Steps("found", "absent", "absent"),
      link |-> "/jobs/view/engineer-at-acme-101?refId=1", url_parse |-> "ok"],
     [data_job_id |-> Absent, title |-> Steps("absent", "found", "absent"),
      company |-> Steps("absent", "absent", "absent"),
      location |-> Steps("absent", "absent", "absent"),
      link |-> "https://www.linkedin.com/jobs/view/analyst-102/?refId=1",
      url_parse |-> "ok"],
     [data_job_id |-> Absent, title |-> Steps("absent", "absent", "found"),
      company |-> Steps("absent", "found", "absent"),
      location |-> Steps("absent", "absent", "absent"),
      link |-> Absent, url_parse |-> "ok"],
     [data_job_id |-> "101", title |-> Steps("absent", "raises", "absent"),
      company |-> Steps("found", "absent", "absent"),
      location |-> Steps("absent", "absent", "absent"),
      link |-> Absent, url_parse |-> "ok"]}

RECURSIVE process_job_cards(_)
\* one job per card, in card order; a card whose extraction raises is logged
\* and left out
process_job_cards(cards) ==
    IF cards = <<>> THEN <<>>
    ELSE (IF extract_job_data_from_card(Head(cards)).raised THEN <<>>
          ELSE <<extract_job_data_from_card(Head(cards)).job>>)
         \o process_job_cards(Tail(cards))

\* what the generic pass finds in one potential card: the first text that
\* looks like a title and the href of the card's first anchor ('N/A' without
\* one)
FallbackFacts ==
    {[title |-> "Engineer",
      url |-> "https://www.linkedin.com/jobs/view/x-101?refId=1"],
     [title |-> "Data Scientist",
      url |-> "/jobs/view/data-scientist-at-3m-102?refId=1"],
     [title |-> "Senior Analyst Role", url |-> NA]}

\* the identifier the generic pass takes from a link: the regular expression
\* alone
FallbackId(job_link) ==
    IF job_link # NA /\ InJobsView(job_link) /\ RegexId(job_link) # Absent
    THEN RegexId(job_link)
    ELSE NA

RECURSIVE try_alternative_job_extraction_na(_)
\* the generic pass leaving company and location at 'N/A'
try_alternative_job_extraction_na(found) ==
    IF found = <<>> THEN <<>>
    ELSE <<MkJob(FallbackId(Head(found).url), Head(found).title, NA, NA,
                 Head(found).url)>>
         \o try_alternative_job_extraction_na(Tail(found))

RECURSIVE try_alternative_job_extraction(_)
\* one job per potential card in which a title was found: company and
\* location 'unknown', the details 'N/A'
try_alternative_job_extraction(found) ==
    IF found = <<>> THEN <<>>
    ELSE <<MkJob(FallbackId(Head(found).url), Head(found).title, Unknown,
                 Unknown, Head(found).url)>>
         \o try_alternative_job_extraction(Tail(found))

(***************************************************************************)
(* extract_job_data_from_card applied to one card                           *)
(***************************************************************************)
ExtractJobDataFromCard ==
    /\ field_pc = "call"
    /\ card_result' = extract_job_data_from_card(job_card)
    /\ field_pc' = "returned"
    /\ UNCHANGED <<job_card, notFields>>

NextFields == ExtractJobDataFromCard

(***************************************************************************)
(* construct_search_url.  A text is the sequence of its pieces, words and   *)
(* single spaces; a URL is its path and its query parameters, start being   *)
(* <<>> when the URL has no such parameter.                                 *)
(***************************************************************************)
Pieces == {"AI", "Engineer", " "}

SearchTexts == UNION {[1..n -> Pieces] : n \in 1..MaxPieces}

\* text.replace(' ', '%20')
ReplaceSpaces(text) ==
    [i \in 1..Len(text) |-> IF text[i] = " " THEN "%20" ELSE text[i]]

\* the URL carrying the start parameter on every page
construct_search_url_always_start(job_title, location, p) ==
    [path |-> "https://www.linkedin.com/jobs/search/",
     keywords |-> ReplaceSpaces(job_title),
     location |-> ReplaceSpaces(location),
     start |-> <<25 * p>>]

construct_search_url(job_title, location, p) ==
    LET start_param == 25 * p
    IN  IF p = 0
        THEN [path |-> "https://www.linkedin.com/jobs/search/",
              keywords |-> ReplaceSpaces(job_title),
              location |-> ReplaceSpaces(location),
              start |-> <<>>]
        ELSE [path |-> "https://www.linkedin.com/jobs/search/",
              keywords |-> ReplaceSpaces(job_title),
              location |-> ReplaceSpaces(location),
              start |-> <<start_param>>]

\* one iteration of `for page in range(num_pages)`, as far as the URL goes
ConstructSearchUrl ==
    /\ search_pc = "loop"
    /\ search_page < search_pages
    /\ search_urls' = Append(search_urls,
           construct_search_url(search_title, search_location, search_page))
    /\ search_page' = search_page + 1
    /\ UNCHANGED <<search_pc, search_title, search_location, search_pages, notUrl>>

NextUrl == ConstructSearchUrl

(***************************************************************************)
(* scrape_job_listings                                                      *)
(***************************************************************************)
PageOutcomes == {"ok", "nav_error", "parse_error"}

\* all_jobs after one iteration of the page loop, an exception in the
\* iteration resetting the collection
JobsAfterPageReset(acc, outcome, page_jobs) ==
    IF outcome = "ok" THEN acc \o page_jobs ELSE <<>>

\* all_jobs after one iteration of the page loop: extended on success, left
\* as it is when the iteration's try block raised
JobsAfterPage(acc, outcome, page_jobs) ==
    IF outcome = "ok" THEN acc \o page_jobs ELSE acc

\* the generic pass taken whatever the collection holds
NeedsAlternativeAlways(acc) == TRUE

\* `if len(all_jobs) == 0`
NeedsAlternative(acc) == Len(acc) = 0

\* the card lists extract_job_cards can return, over every markup
LocatedCardLists == {extract_job_cards(m) : m \in Markups}

ScrapePage ==
    /\ walk_pc = "loop"
    /\ page < num_pages
    /\ \E outcome \in PageOutcomes, located \in LocatedCardLists :
       \E facts \in [1..Len(located) -> CardFacts] :
          LET cards     == IF outcome = "ok" THEN located ELSE <<>>
              page_jobs == IF outcome = "ok" THEN process_job_cards(facts) ELSE <<>>
          IN  /\ all_jobs' = JobsAfterPage(all_jobs, outcome, page_jobs)
              /\ origin' = origin \o [i \in 1..(Len(all_jobs') - Len(all_jobs)) |-> "card"]
              /\ \/ loaded' = page
                 \/ outcome = "nav_error" /\ loaded' = loaded
              /\ attempted' = Append(attempted, page)
              /\ page_log' = Append(page_log,
                     [page |-> page, outcome |-> outcome, located |-> Len(cards),
                      jobs |-> page_jobs])
    /\ page' = page + 1
    /\ UNCHANGED <<walk_pc, num_pages, fallback_on, notWalk>>

\* the loop is over and the collection is not empty: return it
ReturnListings ==
    /\ walk_pc = "loop"
    /\ page = num_pages
    /\ ~NeedsAlternative(all_jobs)
    /\ walk_pc' = "returned"
    /\ UNCHANGED <<num_pages, page, all_jobs, loaded, attempted, page_log, origin,
                   fallback_on, notWalk>>

\* the loop is over and the collection is empty: the generic pass over
\* driver.page_source replaces it; reading the page source may raise
AlternativeExtraction ==
    /\ walk_pc = "loop"
    /\ page = num_pages
    /\ NeedsAlternative(all_jobs)
    /\ \/ /\ \E found \in SeqsUpTo(FallbackFacts, 2) :
               /\ all_jobs' = try_alternative_job_extraction(found)
               /\ origin' = [i \in 1..Len(found) |-> "fallback"]
          /\ fallback_on' = Append(fallback_on, loaded)
          /\ walk_pc' = "returned"
       \/ /\ walk_pc' = "raised"
          /\ UNCHANGED <<all_jobs, origin, fallback_on>>
    /\ UNCHANGED <<num_pages, page, loaded, attempted, page_log, notWalk>>

NextWalk ==
    \/ ScrapePage
    \/ ReturnListings
    \/ AlternativeExtraction

(***************************************************************************)
(* fetch_job_details.  What one fetch meets is its outcome:                 *)
(*   setup_error       webdriver.Chrome(...) raises (renderer cannot start) *)
(*   nav_error         driver.get / driver.page_source raises               *)
(*   ok                the page is parsed; `found` are the fields located   *)
(*   applicants_error  the applicants block raises; `found` as for ok       *)
(***************************************************************************)
FetchOutcomes ==
    {[kind |-> "setup_error", found |-> {}],
     [kind |-> "nav_error", found |-> {}],
     [kind |-> "ok", found |-> DetailFields],
     [kind |-> "ok", found |-> {"job_description", "date_posted"}],
     [kind |-> "applicants_error", found |-> DetailFields]}

FetchFailures == {"setup_error", "nav_error"}

\* the text the detail page of job_id shows for a field: it names the job
PageText(job_id, f) == job_id

SentinelDetails == [f \in DetailFields |-> NA]

\* fetch_job_details without its handlers: a renderer failure escapes the
\* coroutine
fetch_job_details_unguarded(job_id, o) ==
    IF o.kind \in FetchFailures
    THEN [raised |-> TRUE, details |-> SentinelDetails]
    ELSE [raised |-> FALSE,
          details |-> [f \in DetailFields |->
              IF f = "applicants" /\ o.kind = "applicants_error" THEN None
              ELSE IF f \in o.found THEN PageText(job_id, f) ELSE NA]]

\* the dict fetch_job_details returns; raised: the coroutine ended in an
\* exception instead (every `except Exception` of the body is in place, so
\* it never does)
fetch_job_details(job_id, o) ==
    IF o.kind \in FetchFailures
    THEN [raised |-> FALSE, details |-> SentinelDetails]
    ELSE [raised |-> FALSE,
          details |-> [f \in DetailFields |->
              IF f = "applicants" /\ o.kind = "applicants_error" THEN None
              ELSE IF f \in o.found THEN PageText(job_id, f) ELSE NA]]

\* the job replaced by an entry built from the fetched dict alone: its title
\* is lost
UpdateJobReplace(job, d) ==
    [job EXCEPT !.Job_Title = NA,
                !.job_description = d["job_description"],
                !.seniority_level = d["seniority_level"],
                !.employment_type = d["employment_type"],
                !.job_function = d["job_function"],
                !.industries = d["industries"],
                !.applicants = d["applicants"],
                !.date_posted = d["date_posted"]]

\* dict.update(job_details)
UpdateJob(job, d) ==
    [job EXCEPT !.job_description = d["job_description"],
                !.seniority_level = d["seniority_level"],
                !.employment_type = d["employment_type"],
                !.job_function = d["job_function"],
                !.industries = d["industries"],
                !.applicants = d["applicants"],
                !.date_posted = d["date_posted"]]

Details(job) ==
    [f \in DetailFields |->
        CASE f = "job_description" -> job.job_description
          [] f = "seniority_level" -> job.seniority_level
          [] f = "employment_type" -> job.employment_type
          [] f = "job_function" -> job.job_function
          [] f = "industries" -> job.industries
          [] f = "applicants" -> job.applicants
          [] f = "date_posted" -> job.date_posted]

(***************************************************************************)
(* process_all_jobs and process_job_batch.  Lists of jobs are lists of      *)
(* references to the same dicts: they are sequences of indices into         *)
(* all_jobs.                                                                *)
(***************************************************************************)
Min(a, b) == IF a <= b THEN a ELSE b

IdsOf(heap) == [i \in 1..Len(heap) |-> heap[i].Job_ID]

\* [job for job in all_jobs if job['Job ID'] != 'N/A']
ValidJobs(heap) == SelectIdx(IdsOf(heap), 1, JobIds)

\* [job for job in all_jobs if job['Job ID'] == 'N/A']
InvalidJobs(heap) == SelectIdx(IdsOf(heap), 1, {NA})

\* the slices taken one record too long
SplitBatchesTooLong(v, b) ==
    [k \in 1..((Len(v) + b - 1) \div b) |->
        SubSeq(v, (k - 1) * b + 1, Min(k * b + 1, Len(v)))]

\* one slice more than range(0, len(valid_jobs), batch_size) gives: a trailing
\* empty batch when batch_size divides the number of jobs
SplitBatchesPadded(v, b) ==
    [k \in 1..(Len(v) \div b + 1) |->
        SubSeq(v, (k - 1) * b + 1, Min(k * b, Len(v)))]

\* [valid_jobs[i:i+batch_size] for i in range(0, len(valid_jobs), batch_size)]
SplitBatches(v, b) ==
    [k \in 1..((Len(v) + b - 1) \div b) |->
        SubSeq(v, (k - 1) * b + 1, Min(k * b, Len(v)))]

\* the results handed back in the order the fetches completed
GatherByArrival(res, arr) == [i \in 1..Len(res) |-> res[arr[i]]]

\* asyncio.gather(*tasks): the results in the order of the awaitables,
\* whatever the order of completion
Gather(res, arr) == res

\* for i, job in enumerate(jobs_batch):
\*     if i < len(results) and job['Job ID'] != 'N/A': job.update(results[i])
MergeResults(heap, batch, res) ==
    [h \in 1..Len(heap) |->
        IF \E i \in 1..Len(batch) :
              batch[i] = h /\ i <= Len(res) /\ heap[h].Job_ID # NA
        THEN LET i == CHOOSE i \in 1..Len(batch) : batch[i] = h
             IN  UpdateJob(heap[h], res[i].details)
        ELSE heap[h]]

\* how many job.update calls the merge loop makes on each job of the heap
MergeWrites(w, heap, batch, res) ==
    [h \in 1..Len(heap) |->
        w[h] + Cardinality({i \in 1..Len(batch) :
                               batch[i] = h /\ i <= Len(res) /\ heap[h].Job_ID # NA})]

\* a coroutine whose fetch failed is submitted again
AfterFetchRetry(failed) == IF failed THEN "pending" ELSE "done"

\* the coroutine returns its dict whether the fetch failed or not: its task
\* is done
AfterFetch(failed) == "done"

\* the jobs without identifier put first
ReattachFirst(processed, invalid) == invalid \o processed

\* all_processed_jobs = processed_jobs + invalid_jobs
Reattach(processed, invalid) == processed \o invalid

Running == {i \in 1..Len(tasks) : task_state[i] = "running"}

WalkDriver == 0    \* the browser of the listing walk
NoRenderer == -1   \* webdriver.Chrome(...) raised: the fetch has no browser

\* the browsers the fetches started so far have created
Created == {fetch_log[key].renderer : key \in DOMAIN fetch_log} \ {NoRenderer}

\* the fetch taking the browser of the listing walk
NewRendererShared(used) == WalkDriver

\* driver = webdriver.Chrome(options=options): an instance of its own
NewRenderer(used) == Cardinality(used) + 1

\* finally: driver.quit()
QuitRenderer(alive, r) == alive \ {r}

\* process_all_jobs up to the batch loop
ProcessAllJobsStart ==
    /\ enrich_pc = "start"
    /\ valid_jobs' = ValidJobs(all_jobs)
    /\ batches' = SplitBatches(valid_jobs', batch_size)
    /\ batch_no' = 1
    /\ processed_jobs' = <<>>
    /\ enrich_pc' = "batch"
    /\ UNCHANGED <<notEnrich, all_jobs, batch_size, input_jobs, tasks, task_state, results,
                   arrival, all_processed_jobs, fetch_log, peak_in_flight, writes,
                   renderers>>

\* process_job_batch up to `await asyncio.gather(*tasks)`: one coroutine per
\* job of the batch that has an identifier
BatchSubmit ==
    /\ enrich_pc = "batch"
    /\ batch_no <= Len(batches)
    /\ LET batch == batches[batch_no]
           with_id == SelectIdx([i \in 1..Len(batch) |-> all_jobs[batch[i]].Job_ID],
                                1, JobIds)
       IN  /\ tasks' = [t \in 1..Len(with_id) |->
                           [job_id |-> all_jobs[batch[with_id[t]]].Job_ID,
                            job_title |-> all_jobs[batch[with_id[t]]].Job_Title]]
           /\ task_state' = [t \in 1..Len(with_id) |-> "pending"]
           /\ results' = [t \in 1..Len(with_id) |->
                             [raised |-> FALSE, details |-> SentinelDetails]]
    /\ arrival' = <<>>
    /\ enrich_pc' = "gather"
    /\ UNCHANGED <<notEnrich, all_jobs, batch_size, input_jobs, valid_jobs, batches, batch_no,
                   processed_jobs, all_processed_jobs, fetch_log, peak_in_flight,
                   writes, renderers>>

\* the event loop starts a submitted coroutine, which creates its browser
\* (started) or fails to
FetchStart(t) ==
    /\ enrich_pc = "gather"
    /\ task_state[t] = "pending"
    /\ task_state' = [task_state EXCEPT ![t] = "running"]
    /\ \E started \in BOOLEAN :
          LET key == <<batch_no, t>>
              n   == IF key \in DOMAIN fetch_log THEN fetch_log[key].starts ELSE 0
              r   == IF started THEN NewRenderer(Created \cup {WalkDriver})
                     ELSE NoRenderer
          IN  /\ fetch_log' =
                     (key :> [job_id |-> tasks[t].job_id,
                              merged |-> Len(processed_jobs),
                              starts |-> n + 1, done |-> FALSE, failed |-> FALSE,
                              details |-> SentinelDetails, renderer |-> r])
                     @@ fetch_log
              /\ renderers' = IF started THEN renderers \cup {r} ELSE renderers
    /\ peak_in_flight' = IF Cardinality(Running) + 1 > peak_in_flight
                         THEN Cardinality(Running) + 1 ELSE peak_in_flight
    /\ UNCHANGED <<notEnrich, all_jobs, enrich_pc, batch_size, input_jobs, valid_jobs, batches,
                   batch_no, tasks, results, arrival, processed_jobs,
                   all_processed_jobs, writes>>

\* a running coroutine ends: it has quit the browser it created and returns
\* its dict
FetchFinish(t) ==
    /\ enrich_pc = "gather"
    /\ task_state[t] = "running"
    /\ \E o \in FetchOutcomes :
          /\ o.kind = "setup_error" <=> fetch_log[<<batch_no, t>>].renderer = NoRenderer
          /\ renderers' = QuitRenderer(renderers, fetch_log[<<batch_no, t>>].renderer)
          /\ results' = [results EXCEPT ![t] = fetch_job_details(tasks[t].job_id, o)]
          /\ fetch_log' = [fetch_log EXCEPT
                 ![<<batch_no, t>>] =
                     [@ EXCEPT !.done = TRUE, !.failed = o.kind \in FetchFailures,
                               !.details = results'[t].details]]
          /\ task_state' = [task_state EXCEPT
                 ![t] = AfterFetch(o.kind \in FetchFailures)]
    /\ arrival' = Append(arrival, t)
    /\ UNCHANGED <<notEnrich, all_jobs, enrich_pc, batch_size, input_jobs, valid_jobs, batches,
                   batch_no, tasks, processed_jobs, all_processed_jobs,
                   peak_in_flight, writes>>

\* gather returns once every coroutine has ended; the rest of
\* process_job_batch merges, and process_all_jobs extends processed_jobs.
\* An exception out of a coroutine is raised by gather and ends the call.
BatchMerge ==
    /\ enrich_pc = "gather"
    /\ \A t \in 1..Len(tasks) : task_state[t] = "done"
    /\ LET res == Gather(results, arrival)
       IN  IF \E t \in 1..Len(res) : res[t].raised
           THEN /\ enrich_pc' = "raised"
                /\ UNCHANGED <<all_jobs, processed_jobs, batch_no, writes>>
           ELSE /\ all_jobs' = MergeResults(all_jobs, batches[batch_no], res)
                /\ writes' = MergeWrites(writes, all_jobs, batches[batch_no], res)
                /\ processed_jobs' = processed_jobs \o batches[batch_no]
                /\ batch_no' = batch_no + 1
                /\ enrich_pc' = "batch"
    /\ tasks' = <<>>          \* the locals of process_job_batch are gone
    /\ task_state' = <<>>
    /\ results' = <<>>
    /\ arrival' = <<>>
    /\ UNCHANGED <<notEnrich, batch_size, input_jobs, valid_jobs, batches,
                   all_processed_jobs, fetch_log, peak_in_flight, renderers>>

\* after the last batch: the jobs without identifier are put back
ProcessAllJobsReturn ==
    /\ enrich_pc = "batch"
    /\ batch_no > Len(batches)
    /\ all_processed_jobs' = Reattach(processed_jobs, InvalidJobs(all_jobs))
    /\ enrich_pc' = "returned"
    /\ UNCHANGED <<notEnrich, all_jobs, batch_size, input_jobs, valid_jobs, batches, batch_no,
                   tasks, task_state, results, arrival, processed_jobs, fetch_log,
                   peak_in_flight, writes, renderers>>

NextEnrich ==
    \/ ProcessAllJobsStart
    \/ BatchSubmit
    \/ \E t \in 1..Len(tasks) : FetchStart(t)
    \/ \E t \in 1..Len(tasks) : FetchFinish(t)
    \/ BatchMerge
    \/ ProcessAllJobsReturn

\* process_job_batch called on its own, with whatever batch the caller has
NextBatch ==
    \/ BatchSubmit
    \/ \E t \in 1..Len(tasks) : FetchStart(t)
    \/ \E t \in 1..Len(tasks) : FetchFinish(t)
    \/ BatchMerge

(***************************************************************************)
(* The jobs table (job_id is its primary key) and save_jobs_to_database.    *)
(* store holds the committed rows as a function from the identifiers        *)
(* present; txn is the table as the open session sees it.  The database is  *)
(* SQLite (config.DATABASE_URL): a statement that raises changes nothing    *)
(* and leaves the transaction open.                                         *)
(***************************************************************************)
RecordFaults == {"none", "lookup_error", "write_error"}

\* a lookup that never finds the row
LookupBlind(table, id) == FALSE

\* a lookup that reads the committed rows only: it does not see what the
\* open session has written
LookupCommitted(table, id) == id \in DOMAIN store

\* session.execute(select(jobs_table).where(job_id == id)).fetchone()
Lookup(table, id) == id \in DOMAIN table

\* the record loop with a handler that rolls the session back: a record
\* that raises discards what the call wrote before it
SaveOneRollback(table, job, fault) ==
    IF job.Job_ID = NA THEN [table |-> table, result |-> "skipped", ops |-> <<>>]
    ELSE IF fault # "none"
    THEN [table |-> store, result |-> "failed", ops |-> <<"select">>]
    ELSE IF Lookup(table, job.Job_ID)
    THEN [table |-> (job.Job_ID :> job) @@ table, result |-> "updated",
          ops |-> <<"select", "update">>]
    ELSE [table |-> (job.Job_ID :> job) @@ table, result |-> "inserted",
          ops |-> <<"select", "insert">>]

\* the record loop without its test of the identifier: a record with
\* identifier 'N/A' is looked up and written like any other
SaveOneNoSkip(table, job, fault) ==
    IF fault = "lookup_error"
    THEN [table |-> table, result |-> "failed", ops |-> <<"select">>]
    ELSE IF Lookup(table, job.Job_ID)
    THEN (IF fault = "write_error"
          THEN [table |-> table, result |-> "failed", ops |-> <<"select", "update">>]
          ELSE [table |-> (job.Job_ID :> job) @@ table, result |-> "updated",
                ops |-> <<"select", "update">>])
    ELSE (IF fault = "write_error"
          THEN [table |-> table, result |-> "failed", ops |-> <<"select", "insert">>]
          ELSE [table |-> (job.Job_ID :> job) @@ table, result |-> "inserted",
                ops |-> <<"select", "insert">>])

\* what one iteration of the record loop does to the session, how it ends
\* ("skipped" | "inserted" | "updated" | "failed") and the statements it sent
\* to the store (ops)
SaveOne(table, job, fault) ==
    IF job.Job_ID = NA THEN [table |-> table, result |-> "skipped", ops |-> <<>>]
    ELSE IF fault = "lookup_error"
    THEN [table |-> table, result |-> "failed", ops |-> <<"select">>]
    ELSE IF Lookup(table, job.Job_ID)
    THEN (IF fault = "write_error"
          THEN [table |-> table, result |-> "failed", ops |-> <<"select", "update">>]
          ELSE [table |-> (job.Job_ID :> job) @@ table, result |-> "updated",
                ops |-> <<"select", "update">>])
    ELSE (IF fault = "write_error" \/ job.Job_ID \in DOMAIN table
          THEN [table |-> table, result |-> "failed",   \* IntegrityError included
                ops |-> <<"select", "insert">>]
          ELSE [table |-> (job.Job_ID :> job) @@ table, result |-> "inserted",
                ops |-> <<"select", "insert">>])

\* the timestamp read again for every record: datetime.now() inside the loop
StampPerRecord(js, t) ==
    [i \in 1..Len(js) |-> [js[i] EXCEPT !.date_scraped = t + i - 1]]

\* current_time = datetime.now()...; for job in jobs: job['date_scraped'] =
\* current_time
Stamp(js, t) == [i \in 1..Len(js) |-> [js[i] EXCEPT !.date_scraped = t]]

\* the call: `if not jobs: return`, else the timestamp, the counters and the
\* session
SaveCall ==
    /\ save_pc = "call"
    /\ IF jobs = <<>>
       THEN /\ save_pc' = "returned"
            /\ calls' = Append(calls,
                   [jobs |-> jobs, log |-> <<>>, inserted |-> 0, updated |-> 0,
                    failed |-> 0, committed |-> FALSE, before |-> store,
                    after |-> store])
            /\ UNCHANGED <<jobs, clock, current_time, txn, job_no, save_log,
                           successful_inserts, successful_updates, failed_operations>>
       ELSE /\ clock' = clock + 1
            /\ current_time' = clock'
            /\ jobs' = Stamp(jobs, clock')
            /\ successful_inserts' = 0
            /\ successful_updates' = 0
            /\ failed_operations' = 0
            /\ txn' = store
            /\ job_no' = 1
            /\ save_log' = <<>>
            /\ save_pc' = "records"
            /\ UNCHANGED calls
    /\ UNCHANGED <<notSave, store, faults>>

\* one iteration of `for job in jobs`, its try block and handler included
SaveRecord ==
    /\ save_pc = "records"
    /\ job_no <= Len(jobs)
    /\ \E fault \in RecordFaults :
          /\ fault # "none" => faults < MaxFaults /\ jobs[job_no].Job_ID # NA
          /\ LET r == SaveOne(txn, jobs[job_no], fault)
             IN  /\ txn' = r.table
                 /\ successful_inserts' =
                        successful_inserts + (IF r.result = "inserted" THEN 1 ELSE 0)
                 /\ successful_updates' =
                        successful_updates + (IF r.result = "updated" THEN 1 ELSE 0)
                 /\ failed_operations' =
                        failed_operations + (IF r.result = "failed" THEN 1 ELSE 0)
                 /\ save_log' = Append(save_log,
                        [job_id |-> jobs[job_no].Job_ID, fault |-> fault,
                         result |-> r.result, ops |-> r.ops])
          /\ faults' = faults + (IF fault = "none" THEN 0 ELSE 1)
    /\ job_no' = job_no + 1
    /\ UNCHANGED <<notSave, save_pc, jobs, store, clock, current_time, calls>>

\* the loop is over: the totals are logged, session_scope commits; a commit
\* that raises is rolled back, and the exception is logged and swallowed by
\* the outer handler of save_jobs_to_database
SaveCommit ==
    /\ save_pc = "records"
    /\ job_no > Len(jobs)
    /\ \E ok \in BOOLEAN :
          /\ ~ok => faults < MaxFaults
          /\ faults' = faults + (IF ok THEN 0 ELSE 1)
          /\ store' = IF ok THEN txn ELSE store
          /\ calls' = Append(calls,
                 [jobs |-> jobs, log |-> save_log, inserted |-> successful_inserts,
                  updated |-> successful_updates, failed |-> failed_operations,
                  committed |-> ok, before |-> store, after |-> store'])
    /\ txn' = store'
    /\ save_pc' = "returned"
    /\ UNCHANGED <<notSave, jobs, job_no, clock, current_time, successful_inserts,
                   successful_updates, failed_operations, save_log>>

\* the same list is saved again (a second run over the same records)
SaveAgain ==
    /\ save_pc = "returned"
    /\ Len(calls) < MaxCalls
    /\ save_pc' = "call"
    /\ UNCHANGED <<notSave, jobs, job_no, store, txn, clock, current_time,
                   successful_inserts, successful_updates, failed_operations,
                   faults, save_log, calls>>

NextSave ==
    \/ SaveCall
    \/ SaveRecord
    \/ SaveCommit
    \/ SaveAgain

(***************************************************************************)
(* async_scrape_linkedin_jobs: the stages called one after the other under  *)
(* one try block, then the handler and the finally clause.  A stage is one  *)
(* step of the run, computed with the stage's own operators; the pages of   *)
(* the walk are taken together.                                             *)
(***************************************************************************)
CsvFields == {"Job_ID", "Job_Title", "Company_Name", "Location", "Job_URL",
              "job_description", "seniority_level", "employment_type",
              "job_function", "industries", "applicants", "date_posted"}

\* the row csv.DictWriter writes for a job dict
CsvRow(job) == [f \in CsvFields |-> job[f]]

CsvRows(js) == [i \in 1..Len(js) |-> CsvRow(js[i])]

\* DictWriter.writerow raises on a dict holding a key outside fieldnames
RowRaises(job) == job.date_scraped # Absent

RECURSIVE RowsWritten(_)
\* the rows in the file when the writer stops
RowsWritten(js) ==
    IF js = <<>> \/ RowRaises(Head(js)) THEN <<>>
    ELSE <<CsvRow(Head(js))>> \o RowsWritten(Tail(js))

\* save_jobs_to_csv: the file afterwards and how the call ended; io_ok:
\* open() succeeds
save_jobs_to_csv(old, js, io_ok) ==
    IF js = <<>> THEN [file |-> old, event |-> "nothing_to_write"]
    ELSE IF ~io_ok THEN [file |-> old, event |-> "error"]
    ELSE IF \E i \in 1..Len(js) : RowRaises(js[i])
    THEN [file |-> RowsWritten(js), event |-> "error"]
    ELSE [file |-> RowsWritten(js), event |-> "written"]

LogEntry(level, event) == [level |-> level, event |-> event]

\* process_job_cards logging nothing for a card it leaves out
CardWarningsSilent(cards) == <<>>

RECURSIVE CardWarnings(_)
\* the warnings process_job_cards logs: one per card whose extraction raised
CardWarnings(cards) ==
    IF cards = <<>> THEN <<>>
    ELSE (IF extract_job_data_from_card(Head(cards)).raised
          THEN <<LogEntry("warning", "card")>> ELSE <<>>)
         \o CardWarnings(Tail(cards))

RECURSIVE EnrichBatches(_, _, _, _)
\* the job dicts after the first n batches were fetched and merged; outs[h]
\* is what the fetch for job h meets
EnrichBatches(heap, bs, outs, n) ==
    IF n = 0 THEN heap
    ELSE LET before == EnrichBatches(heap, bs, outs, n - 1)
             batch  == bs[n]
             res    == [i \in 1..Len(batch) |->
                           fetch_job_details(before[batch[i]].Job_ID, outs[batch[i]])]
         IN  MergeResults(before, batch, Gather(res, <<>>))

RECURSIVE SaveAll(_, _, _, _)
\* the record loop of save_jobs_to_database from record i on: the session's
\* table afterwards and one log entry per record
SaveAll(table, js, fs, i) ==
    IF i > Len(js) THEN [table |-> table, log |-> <<>>]
    ELSE LET r    == SaveOne(table, js[i], fs[i])
             rest == SaveAll(r.table, js, fs, i + 1)
         IN  [table |-> rest.table,
              log |-> <<[job_id |-> js[i].Job_ID, fault |-> fs[i],
                         result |-> r.result, ops |-> r.ops]>> \o rest.log]

CountResult(log, result) ==
    Cardinality({i \in 1..Len(log) : log[i].result = result})

RECURSIVE RecordLog(_)
\* what the record loop logs: a warning per skipped record, an error per
\* failed one
RecordLog(log) ==
    IF log = <<>> THEN <<>>
    ELSE (CASE Head(log).result = "skipped" -> <<LogEntry("warning", "skipped")>>
            [] Head(log).result = "failed" -> <<LogEntry("error", "record")>>
            [] OTHER -> <<>>)
         \o RecordLog(Tail(log))

\* if params['use_xdotool']: setup_linkedin_with_xdotool(...)
RunSetup ==
    /\ run_pc = "setup"
    /\ \E raised \in BOOLEAN :
          /\ run_pc' = IF raised THEN "handler" ELSE "scrape"
          /\ run_error' = IF raised THEN "setup" ELSE run_error
    /\ UNCHANGED <<all_jobs, origin, store, clock, calls, run_batch_size,
                   run_processed, files, exports, run_cards, run_log, notRun>>

\* all_jobs = scrape_job_listings(...): the cards of the pages, then the
\* generic pass when they gave no job; driver.page_source may raise there
RunScrape ==
    /\ run_pc = "scrape"
    /\ \E cards \in SeqsUpTo(CardFacts, MaxRunCards) :
          LET card_jobs == process_job_cards(cards)
          IN  /\ run_cards' = cards
              /\ \/ /\ ~NeedsAlternative(card_jobs)
                    /\ all_jobs' = card_jobs
                    /\ origin' = [i \in 1..Len(card_jobs) |-> "card"]
                    /\ run_log' = run_log \o CardWarnings(cards)
                    /\ run_pc' = "process"
                    /\ UNCHANGED run_error
                 \/ /\ NeedsAlternative(card_jobs)
                    /\ \E found \in SeqsUpTo(FallbackFacts, MaxRunCards) :
                          /\ all_jobs' = try_alternative_job_extraction(found)
                          /\ origin' = [i \in 1..Len(found) |-> "fallback"]
                    /\ run_log' = run_log \o CardWarnings(cards)
                                     \o <<LogEntry("warning", "no_jobs_found")>>
                    /\ run_pc' = "process"
                    /\ UNCHANGED run_error
                 \/ /\ NeedsAlternative(card_jobs)
                    /\ run_log' = run_log \o CardWarnings(cards)
                                     \o <<LogEntry("warning", "no_jobs_found")>>
                    /\ run_pc' = "handler"
                    /\ run_error' = "scrape"
                    /\ UNCHANGED <<all_jobs, origin>>
    /\ UNCHANGED <<store, clock, calls, run_batch_size, run_processed, files,
                   exports, notRun>>

\* processed_jobs = await process_all_jobs(all_jobs, ...); the call raises
\* when a process_job_batch does (aiohttp.ClientSession()), the batches
\* before it being merged already
RunProcess ==
    /\ run_pc = "process"
    /\ LET bs == SplitBatches(ValidJobs(all_jobs), run_batch_size)
       IN  \E outs \in [1..Len(all_jobs) -> FetchOutcomes], n \in 0..Len(bs) :
              /\ \A h \in 1..Len(all_jobs) :
                    all_jobs[h].Job_ID = NA => outs[h].kind = "setup_error"
              /\ all_jobs' = EnrichBatches(all_jobs, bs, outs, n)
              /\ IF n = Len(bs)
                 THEN /\ run_processed' = Reattach(Flatten(bs), InvalidJobs(all_jobs))
                      /\ run_pc' = "save"
                      /\ UNCHANGED run_error
                 ELSE /\ run_pc' = "handler"
                      /\ run_error' = "process"
                      /\ UNCHANGED run_processed
    /\ UNCHANGED <<origin, store, clock, calls, run_batch_size, files, exports,
                   run_cards, run_log, notRun>>

\* save_jobs_to_database(processed_jobs, ...), in the try block or in the
\* handler: it logs what goes wrong and never raises
RunSave ==
    /\ run_pc \in {"save", "handler_save"}
    /\ IF run_processed = <<>>
       THEN /\ calls' = Append(calls,
                   [jobs |-> <<>>, log |-> <<>>, inserted |-> 0, updated |-> 0,
                    failed |-> 0, committed |-> FALSE, before |-> store,
                    after |-> store])
            /\ run_log' = Append(run_log, LogEntry("warning", "no_jobs_to_save"))
            /\ UNCHANGED <<all_jobs, store, clock>>
       ELSE \E fs \in [1..Len(run_processed) -> RecordFaults], ok \in BOOLEAN :
               LET stamped == [h \in 1..Len(all_jobs) |->
                                  IF h \in Range(run_processed)
                                  THEN [all_jobs[h] EXCEPT !.date_scraped = clock + 1]
                                  ELSE all_jobs[h]]
                   js == [i \in 1..Len(run_processed) |-> stamped[run_processed[i]]]
                   r  == SaveAll(store, js, fs, 1)
               IN  /\ Cardinality({i \in 1..Len(js) : fs[i] # "none"})
                         + (IF ok THEN 0 ELSE 1) <= MaxFaults
                   /\ \A i \in 1..Len(js) : fs[i] # "none" => js[i].Job_ID # NA
                   /\ all_jobs' = stamped
                   /\ clock' = clock + 1
                   /\ store' = IF ok THEN r.table ELSE store
                   /\ calls' = Append(calls,
                          [jobs |-> js, log |-> r.log,
                           inserted |-> CountResult(r.log, "inserted"),
                           updated |-> CountResult(r.log, "updated"),
                           failed |-> CountResult(r.log, "failed"),
                           committed |-> ok, before |-> store, after |-> store'])
                   /\ run_log' = run_log \o RecordLog(r.log)
                          \o (IF ok THEN <<>> ELSE <<LogEntry("error", "transaction")>>)
    /\ run_pc' = "finally"
    /\ UNCHANGED <<origin, run_batch_size, run_processed, files, exports,
                   run_cards, run_error, notRun>>

\* except Exception: the error is logged; if all_jobs: the '.partial' export,
\* then, if processed_jobs, the database
RunHandler ==
    /\ run_pc = "handler"
    /\ \E io_ok \in BOOLEAN :
          LET r == save_jobs_to_csv(files.partial, all_jobs, io_ok)
          IN  IF all_jobs # <<>>
              THEN /\ files' = [files EXCEPT !.partial = r.file]
                   /\ exports' = Append(exports,
                          [file |-> "partial", rows |-> CsvRows(all_jobs),
                           event |-> r.event])
                   /\ run_log' = run_log \o <<LogEntry("error", "run")>>
                          \o (IF r.event = "error"
                              THEN <<LogEntry("error", "csv")>> ELSE <<>>)
                   /\ run_pc' = IF run_processed # <<>> THEN "handler_save"
                                ELSE "finally"
              ELSE /\ io_ok
                   /\ run_log' = Append(run_log, LogEntry("error", "run"))
                   /\ run_pc' = "finally"
                   /\ UNCHANGED <<files, exports>>
    /\ UNCHANGED <<all_jobs, origin, store, clock, calls, run_batch_size,
                   run_processed, run_cards, run_error, notRun>>

\* finally: driver.quit()
RunFinally ==
    /\ run_pc = "finally"
    /\ run_pc' = "done"
    /\ UNCHANGED <<all_jobs, origin, store, clock, calls, run_batch_size,
                   run_processed, files, exports, run_cards, run_error, run_log,
                   notRun>>

NextRun ==
    \/ RunSetup
    \/ RunScrape
    \/ RunProcess
    \/ RunSave
    \/ RunHandler
    \/ RunFinally

(***************************************************************************)
(* analyze_resume_job_match (src/src/ai_service/openai/generate_score.py).  *)
(* A response is what create_chat_completion returned: the text of the      *)
(* model's reply, or, the API call having raised, the error message it      *)
(* returns in its place ("api_error").  A reply is a JSON object            *)
(* ("object") or not ("not_json"); an object holds every field of           *)
(* JobMatchResponse (complete) or lacks one, and its match_score is the     *)
(* number given.                                                            *)
(***************************************************************************)
Scores == {-1, 0, 100, 101}

Responses ==
    {[kind |-> "api_error", complete |-> FALSE, match_score |-> 0],
     [kind |-> "not_json", complete |-> FALSE, match_score |-> 0]}
    \cup [kind : {"object"}, complete : BOOLEAN, match_score : Scores]

\* the usage create_chat_completion returns with a response: {} after an
\* error, the token counts otherwise
UsageOf(resp) == IF resp.kind = "api_error" THEN "{}" ELSE "tokens"

\* json.loads(response) returns
ParsesAsJson(resp) == resp.kind = "object"

\* JobMatchResponse(**response_dict) returns: every field is there and
\* match_score is within ge=0, le=100
Validates(resp) ==
    /\ resp.complete
    /\ resp.match_score >= 0
    /\ resp.match_score <= 100

TheJob == "4191815023"   \* the job_id argument

\* save_analysis_result: the row of job_id inserted or updated in the session
UpsertAnalysis(table, job_id, resp) ==
    (job_id :> [job_id |-> job_id, match_score |-> resp.match_score]) @@ table

\* what the call gave its caller: a pair, a bare None, or an exception
Pair(response, usage) == [kind |-> "pair", response |-> response, usage |-> usage]
BareNone == [kind |-> "none", response |-> <<>>, usage |-> <<>>]
Raised == [kind |-> "raised", response |-> <<>>, usage |-> <<>>]
Pending == [kind |-> "pending", response |-> <<>>, usage |-> <<>>]

\* return None, None
NonePair == Pair(<<None>>, <<None>>)

\* init_database, session_scope, get_job_data: `if not job_data_dict:
\* return None, None`
AnalyzeCall ==
    /\ an_pc = "call"
    /\ analyzed_txn' = analyzed_jobs
    /\ IF job_data_dict = None
       THEN /\ an_result' = NonePair
            /\ an_pc' = "done"
       ELSE /\ an_pc' = "loop"
            /\ UNCHANGED an_result
    /\ UNCHANGED <<max_retries, attempt, job_data_dict, analyzed_jobs, api_calls,
                   saves, notAnalyze>>

\* one iteration of `for attempt in range(max_retries)`: the API call, the
\* parsing, the validation, the save, and the handlers; a return leaves the
\* with block, whose commit may raise when the session has written
AnalyzeAttempt ==
    /\ an_pc = "loop"
    /\ attempt < max_retries
    /\ \E resp \in Responses, save_ok \in BOOLEAN, commit_ok \in BOOLEAN :
          LET valid == ParsesAsJson(resp) /\ Validates(resp)
              last  == attempt = max_retries - 1
          IN  /\ ~valid => save_ok
              /\ ~(valid /\ save_ok) => commit_ok
              /\ api_calls' = Append(api_calls, resp)
              /\ saves' = IF valid
                          THEN Append(saves, [response |-> resp, attempt |-> attempt,
                                              saved |-> save_ok])
                          ELSE saves
              /\ IF valid /\ save_ok
                 THEN \* return response_dict, usage
                      /\ analyzed_txn' = IF commit_ok
                                         THEN UpsertAnalysis(analyzed_txn, TheJob, resp)
                                         ELSE analyzed_jobs
                      /\ analyzed_jobs' = analyzed_txn'
                      /\ an_result' = IF commit_ok
                                    THEN Pair(<<resp>>, <<UsageOf(resp)>>)
                                    ELSE Raised
                      /\ an_pc' = "done"
                      /\ UNCHANGED attempt
                 ELSE IF last
                 THEN \* the handler's return None, None
                      /\ an_result' = NonePair
                      /\ an_pc' = "done"
                      /\ UNCHANGED <<attempt, analyzed_txn, analyzed_jobs>>
                 ELSE /\ attempt' = attempt + 1
                      /\ UNCHANGED <<an_pc, an_result, analyzed_txn, analyzed_jobs>>
    /\ UNCHANGED <<max_retries, job_data_dict, notAnalyze>>

\* range(max_retries) is exhausted without a return: the function ends
\* after the loop
AnalyzeFallOff ==
    /\ an_pc = "loop"
    /\ attempt >= max_retries
    /\ an_result' = BareNone
    /\ an_pc' = "done"
    /\ UNCHANGED <<max_retries, attempt, job_data_dict, analyzed_jobs, analyzed_txn,
                   api_calls, saves, notAnalyze>>

NextAnalyze ==
    \/ AnalyzeCall
    \/ AnalyzeAttempt
    \/ AnalyzeFallOff

(***************************************************************************)
(* Initial states.  A stage that a specification does not run stays idle.   *)
(***************************************************************************)
IdleCards ==
    /\ cards_pc = "idle"
    /\ page_markup = [data_job_id |-> {}, occludable |-> {}, base_card |-> {},
                      card_container |-> {}, results_list |-> NoList]
    /\ job_cards = <<>>

NoCard == [data_job_id |-> Absent, title |-> Steps("absent", "absent", "absent"),
           company |-> Steps("absent", "absent", "absent"),
           location |-> Steps("absent", "absent", "absent"),
           link |-> Absent, url_parse |-> "ok"]

IdleFields ==
    /\ field_pc = "idle"
    /\ job_card = NoCard
    /\ card_result = extract_job_data_from_card(NoCard)

IdleUrl ==
    /\ search_pc = "idle"
    /\ search_title = <<>>
    /\ search_location = <<>>
    /\ search_pages = 0
    /\ search_page = 0
    /\ search_urls = <<>>

IdleWalk ==
    /\ walk_pc = "idle"
    /\ num_pages = 0
    /\ page = 0
    /\ loaded = NoPage
    /\ attempted = <<>>
    /\ page_log = <<>>
    /\ origin = <<>>
    /\ fallback_on = <<>>

IdleEnrich ==
    /\ enrich_pc = "idle"
    /\ batch_size = 1
    /\ input_jobs = <<>>
    /\ valid_jobs = <<>>
    /\ batches = <<>>
    /\ batch_no = 1
    /\ tasks = <<>>
    /\ task_state = <<>>
    /\ results = <<>>
    /\ arrival = <<>>
    /\ processed_jobs = <<>>
    /\ all_processed_jobs = <<>>
    /\ fetch_log = <<>>
    /\ peak_in_flight = 0
    /\ writes = <<>>
    /\ renderers = {}

IdleSave ==
    /\ save_pc = "idle"
    /\ jobs = <<>>
    /\ job_no = 1
    /\ store = <<>>
    /\ txn = <<>>
    /\ clock = 0
    /\ current_time = 0
    /\ successful_inserts = 0
    /\ successful_updates = 0
    /\ failed_operations = 0
    /\ faults = 0
    /\ save_log = <<>>
    /\ calls = <<>>

IdleRun ==
    /\ run_pc = "idle"
    /\ run_batch_size = 1
    /\ run_processed = <<>>
    /\ files = [main |-> Absent, partial |-> Absent]
    /\ exports = <<>>
    /\ run_cards = <<>>
    /\ run_error = "none"
    /\ run_log = <<>>

IdleAnalyze ==
    /\ an_pc = "idle"
    /\ max_retries = 0
    /\ attempt = 0
    /\ job_data_dict = None
    /\ analyzed_jobs = <<>>
    /\ analyzed_txn = <<>>
    /\ api_calls = <<>>
    /\ saves = <<>>
    /\ an_result = Pending

\* the job dicts the listing walk can hand on: every detail still 'N/A'
InputJobs ==
    {MkJob("101", "Engineer", "Acme", "Remote", "https://www.linkedin.com/jobs/view/101"),
     MkJob("101", "Analyst", NA, "Remote", "https://www.linkedin.com/jobs/view/101"),
     MkJob("102", "Analyst", "Acme", NA, "https://www.linkedin.com/jobs/view/102"),
     MkJob(NA, "Engineer", "Acme", "Remote", NA),
     MkJob(NA, "Senior Analyst Role", Unknown, Unknown, NA)}

InitCards ==
    /\ cards_pc = "call"
    /\ page_markup \in Markups
    /\ job_cards = <<>>
    /\ all_jobs = <<>>
    /\ IdleFields /\ IdleUrl /\ IdleWalk /\ IdleEnrich /\ IdleSave /\ IdleRun /\ IdleAnalyze

InitFields ==
    /\ field_pc = "call"
    /\ job_card \in Cards
    /\ card_result = extract_job_data_from_card(NoCard)
    /\ all_jobs = <<>>
    /\ IdleCards /\ IdleUrl /\ IdleWalk /\ IdleEnrich /\ IdleSave /\ IdleRun /\ IdleAnalyze

InitUrl ==
    /\ search_pc = "loop"
    /\ search_title \in SearchTexts
    /\ search_location \in SearchTexts
    /\ search_pages \in 0..MaxSearchPages
    /\ search_page = 0
    /\ search_urls = <<>>
    /\ all_jobs = <<>>
    /\ IdleCards /\ IdleFields /\ IdleWalk /\ IdleEnrich /\ IdleSave /\ IdleRun /\ IdleAnalyze

InitWalk ==
    /\ walk_pc = "loop"
    /\ num_pages \in 0..MaxPages
    /\ page = 0
    /\ all_jobs = <<>>
    /\ loaded = NoPage
    /\ attempted = <<>>
    /\ page_log = <<>>
    /\ origin = <<>>
    /\ fallback_on = <<>>
    /\ IdleCards /\ IdleFields /\ IdleUrl /\ IdleEnrich /\ IdleSave /\ IdleRun /\ IdleAnalyze

InitEnrich ==
    /\ all_jobs \in SeqsUpTo(InputJobs, MaxJobs)
    /\ batch_size \in 1..MaxBatchSize
    /\ enrich_pc = "start"
    /\ input_jobs = all_jobs
    /\ valid_jobs = <<>>
    /\ batches = <<>>
    /\ batch_no = 1
    /\ tasks = <<>>
    /\ task_state = <<>>
    /\ results = <<>>
    /\ arrival = <<>>
    /\ processed_jobs = <<>>
    /\ all_processed_jobs = <<>>
    /\ fetch_log = <<>>
    /\ peak_in_flight = 0
    /\ writes = [h \in 1..Len(all_jobs) |-> 0]
    /\ renderers = {WalkDriver}
    /\ IdleCards /\ IdleFields /\ IdleUrl /\ IdleWalk /\ IdleSave /\ IdleRun /\ IdleAnalyze

\* one call of process_job_batch: the batch is the whole list, jobs without
\* identifier included where the list holds them
InitBatch ==
    /\ all_jobs \in SeqsUpTo(InputJobs, MaxJobs)
    /\ batch_size = MaxJobs
    /\ enrich_pc = "batch"
    /\ input_jobs = all_jobs
    /\ valid_jobs = <<>>
    /\ batches = <<[i \in 1..Len(all_jobs) |-> i]>>
    /\ batch_no = 1
    /\ tasks = <<>>
    /\ task_state = <<>>
    /\ results = <<>>
    /\ arrival = <<>>
    /\ processed_jobs = <<>>
    /\ all_processed_jobs = <<>>
    /\ fetch_log = <<>>
    /\ peak_in_flight = 0
    /\ writes = [h \in 1..Len(all_jobs) |-> 0]
    /\ renderers = {WalkDriver}
    /\ IdleCards /\ IdleFields /\ IdleUrl /\ IdleWalk /\ IdleSave /\ IdleRun /\ IdleAnalyze

\* a row left by an earlier run
OldRow == [MkJob("101", "Engineer", "Initech", "Remote", NA) EXCEPT !.date_scraped = 0]

InitSave ==
    /\ save_pc = "call"
    /\ jobs \in SeqsUpTo(InputJobs, MaxJobs)
    /\ store \in {<<>>, ("101" :> OldRow)}
    /\ txn = store
    /\ job_no = 1
    /\ clock = 0
    /\ current_time = 0
    /\ successful_inserts = 0
    /\ successful_updates = 0
    /\ failed_operations = 0
    /\ faults = 0
    /\ save_log = <<>>
    /\ calls = <<>>
    /\ all_jobs = <<>>
    /\ IdleCards /\ IdleFields /\ IdleUrl /\ IdleWalk /\ IdleEnrich /\ IdleRun /\ IdleAnalyze

\* the export file an earlier run left
OldExport == <<CsvRow(OldRow)>>

InitRun ==
    /\ run_pc = "setup"
    /\ run_batch_size \in 1..MaxBatchSize
    /\ run_processed = <<>>
    /\ files \in [main : {Absent, OldExport}, partial : {Absent}]
    /\ exports = <<>>
    /\ run_cards = <<>>
    /\ run_error = "none"
    /\ run_log = <<>>
    /\ all_jobs = <<>>
    /\ store \in {<<>>, ("101" :> OldRow)}
    /\ save_pc = "idle"
    /\ jobs = <<>>
    /\ job_no = 1
    /\ txn = <<>>
    /\ clock = 0
    /\ current_time = 0
    /\ successful_inserts = 0
    /\ successful_updates = 0
    /\ failed_operations = 0
    /\ faults = 0
    /\ save_log = <<>>
    /\ calls = <<>>
    /\ IdleCards /\ IdleFields /\ IdleUrl /\ IdleWalk /\ IdleEnrich /\ IdleAnalyze

SpecCards  == InitCards /\ [][NextCards]_vars
SpecFields == InitFields /\ [][NextFields]_vars
SpecUrl    == InitUrl /\ [][NextUrl]_vars
SpecWalk   == InitWalk /\ [][NextWalk]_vars
SpecEnrich == InitEnrich /\ [][NextEnrich]_vars
SpecBatch  == InitBatch /\ [][NextBatch]_vars
SpecSave   == InitSave /\ [][NextSave]_vars
\* an analysis row left by an earlier call
OldAnalysis == [job_id |-> TheJob, match_score |-> 50]

InitAnalyze ==
    /\ an_pc = "call"
    /\ max_retries \in 0..MaxRetries
    /\ attempt = 0
    /\ job_data_dict \in {"row", None}
    /\ analyzed_jobs \in {<<>>, (TheJob :> OldAnalysis)}
    /\ analyzed_txn = <<>>
    /\ api_calls = <<>>
    /\ saves = <<>>
    /\ an_result = Pending
    /\ all_jobs = <<>>
    /\ IdleCards /\ IdleFields /\ IdleUrl /\ IdleWalk /\ IdleEnrich /\ IdleSave /\ IdleRun

SpecRun    == InitRun /\ [][NextRun]_vars
SpecAnalyze == InitAnalyze /\ [][NextAnalyze]_vars

(***************************************************************************)
(* Properties                                                               *)
(***************************************************************************)
MinOf(S) == CHOOSE x \in S : \A y \in S : x <= y

\* C1: extract_job_cards returns exactly the result of the lowest-numbered
\* of its five strategies whose result is non-empty (never a merge of two
\* results, never a later strategy's), and the empty list only when all five
\* strategies are empty.
C1_FirstNonEmptyStrategy ==
    cards_pc = "returned" =>
        LET hits == {k \in 1..5 : Strategy(page_markup, k) # <<>>}
        IN  IF hits = {} THEN job_cards = <<>>
            ELSE /\ job_cards = Strategy(page_markup, MinOf(hits))
                 /\ job_cards # <<>>

\* markup satisfying strategies 1 and 3 with different elements: only
\* strategy 1's elements were returned
C1_Witness ==
    /\ cards_pc = "returned"
    /\ Method1(page_markup) # <<>>
    /\ Method3(page_markup) # <<>>
    /\ Range(Method3(page_markup)) \ Range(Method1(page_markup)) # {}
    /\ job_cards = Method1(page_markup)

\* sizes of the batches before batch k
RECURSIVE JobsBefore(_)
JobsBefore(k) == IF k <= 1 THEN 0 ELSE Len(batches[k - 1]) + JobsBefore(k - 1)

\* C2: at every moment at most batch_size fetches are in flight, and a
\* fetch of a batch is started only when every fetch of the earlier batches
\* has completed and their jobs have been merged.
C2_BoundedInFlight ==
    /\ Cardinality(Running) <= batch_size
    /\ peak_in_flight <= batch_size
    /\ \A key \in DOMAIN fetch_log :
          /\ key[1] <= batch_no
          /\ key[1] < batch_no => fetch_log[key].done
          /\ fetch_log[key].merged = JobsBefore(key[1])
    /\ enrich_pc = "gather" => Len(processed_jobs) = JobsBefore(batch_no)

\* a fetch of the second batch is in flight after a first batch of two jobs
\* was merged
C2_Witness ==
    /\ enrich_pc = "gather"
    /\ batch_size = 2
    /\ batch_no = 2
    /\ Running # {}
    /\ Len(processed_jobs) = 2

\* the <<batch, position>> pairs of the batches already merged
Merged == {key \in (1..Len(batches)) \X (1..MaxJobs + 1) :
              key[1] < batch_no /\ key[2] <= Len(batches[key[1]])}

JobAt(key) == all_jobs[batches[key[1]][key[2]]]

\* C3: after process_job_batch, whatever the order in which the fetches of
\* the batch completed, the i-th job of the batch holds the dict returned by
\* the fetch that was issued for position i, and that fetch was issued with
\* the job's own identifier.
C3_PositionalMerge ==
    enrich_pc \in {"batch", "gather", "returned"} =>
        \A key \in Merged :
            /\ key \in DOMAIN fetch_log
            /\ fetch_log[key].job_id = JobAt(key).Job_ID
            /\ Details(JobAt(key)) = fetch_log[key].details

\* a merged batch of two jobs with different identifiers, each holding the
\* text of its own detail page
C3_Witness ==
    /\ enrich_pc = "batch"
    /\ batch_no = 2
    /\ Len(batches[1]) = 2
    /\ JobAt(<<1, 1>>).Job_ID # JobAt(<<1, 2>>).Job_ID
    /\ JobAt(<<1, 1>>).job_description = JobAt(<<1, 1>>).Job_ID
    /\ JobAt(<<1, 2>>).job_description = JobAt(<<1, 2>>).Job_ID

\* C4: a fetch that fails (renderer cannot start, navigation error) still
\* returns a dict, the seven detail fields of its job are all 'N/A', and
\* every other job holds the values its own fetch returned.
C4_FailureIsolated ==
    /\ enrich_pc # "raised"
    /\ \A t \in 1..Len(results) : ~results[t].raised
    /\ \A key \in DOMAIN fetch_log :
          fetch_log[key].done /\ fetch_log[key].failed
              => fetch_log[key].details = SentinelDetails
    /\ enrich_pc \in {"batch", "gather", "returned"} =>
          \A key \in Merged :
              /\ key \in DOMAIN fetch_log
              /\ IF fetch_log[key].failed
                 THEN \A f \in DetailFields : Details(JobAt(key))[f] = NA
                 ELSE /\ Details(JobAt(key)) = fetch_log[key].details
                      /\ \A f \in DetailFields :
                            Details(JobAt(key))[f] \in {NA, None, JobAt(key).Job_ID}

\* a merged batch in which one fetch failed and its sibling found its
\* description
C4_Witness ==
    /\ enrich_pc = "batch"
    /\ \E k1 \in Merged, k2 \in Merged :
          /\ k1[1] = k2[1]
          /\ k1 # k2
          /\ fetch_log[k1].failed
          /\ \A f \in DetailFields : Details(JobAt(k1))[f] = NA
          /\ ~fetch_log[k2].failed
          /\ JobAt(k2).job_description = JobAt(k2).Job_ID

Written == {"inserted", "updated"}

\* the last record of a call's batch written for identifier id
LastWritten(c, id) ==
    LET hits == {i \in 1..Len(c.log) : c.log[i].job_id = id /\ c.log[i].result \in Written}
    IN  c.jobs[CHOOSE i \in hits : \A j \in hits : j <= i]

\* C5: a record whose lookup or write raises is counted as failed, every
\* later record of the batch is still attempted, and the inserts and updates
\* made for the other records are in the store when the call returns (the
\* session's commit succeeding).
C5_PerRecordIsolation ==
    \A n \in 1..Len(calls) :
        LET c == calls[n]
        IN  /\ Len(c.log) = Len(c.jobs)
            /\ \A i \in 1..Len(c.log) :
                  /\ c.log[i].job_id = c.jobs[i].Job_ID
                  /\ c.log[i].fault # "none" => c.log[i].result = "failed"
                  /\ c.log[i].fault = "none" /\ c.jobs[i].Job_ID # NA
                        => c.log[i].result \in Written
            /\ c.failed = Cardinality({i \in 1..Len(c.log) : c.log[i].result = "failed"})
            /\ c.committed =>
                  \A i \in 1..Len(c.log) :
                      c.log[i].result \in Written =>
                          /\ c.jobs[i].Job_ID \in DOMAIN c.after
                          /\ c.after[c.jobs[i].Job_ID] = LastWritten(c, c.jobs[i].Job_ID)

\* the first record of a batch raised, a later record was inserted and is in
\* the store
C5_Witness ==
    /\ save_pc = "returned"
    /\ Len(calls) = 1
    /\ LET c == calls[1]
       IN  /\ Len(c.jobs) >= 2
           /\ c.log[1].result = "failed"
           /\ c.log[2].result = "inserted"
           /\ c.committed
           /\ c.jobs[2].Job_ID \in DOMAIN store
           /\ c.jobs[2].Job_ID \notin DOMAIN c.before
           /\ store[c.jobs[2].Job_ID] = c.jobs[2]

CallIds(c) == {c.jobs[i].Job_ID : i \in 1..Len(c.jobs)}

\* a call in which no store operation raised and the commit went through
Faultless(c) ==
    /\ \A i \in 1..Len(c.log) : c.log[i].fault = "none"
    /\ c.jobs # <<>> => c.committed

\* C6: saving K records with distinct resolved identifiers, none of them in
\* the store, counts inserted=K and updated=0; saving the same records again
\* counts inserted=0 and updated=K; the store then holds exactly K rows for
\* those identifiers (no store operation raising in either call).
C6_UpsertIdempotent ==
    Len(calls) >= 2 =>
        LET c1 == calls[1]
            c2 == calls[2]
            K  == Len(c1.jobs)
        IN  ( /\ NA \notin CallIds(c1)
              /\ Cardinality(CallIds(c1)) = K
              /\ CallIds(c1) \cap DOMAIN c1.before = {}
              /\ Faultless(c1) /\ Faultless(c2) )
            => /\ c1.inserted = K /\ c1.updated = 0 /\ c1.failed = 0
               /\ c2.inserted = 0 /\ c2.updated = K /\ c2.failed = 0
               /\ CallIds(c2) = CallIds(c1)
               /\ DOMAIN c2.after = DOMAIN c1.before \cup CallIds(c1)
               /\ Cardinality(DOMAIN c2.after \cap CallIds(c1)) = K

\* two records with different identifiers saved twice into a store that
\* held neither
C6_Witness ==
    /\ Len(calls) = 2
    /\ Len(calls[1].jobs) = 2
    /\ CallIds(calls[1]) = JobIds
    /\ DOMAIN calls[1].before = {}
    /\ Faultless(calls[1]) /\ Faultless(calls[2])
    /\ calls[1].inserted = 2
    /\ calls[2].updated = 2

RECURSIVE PageJobs(_)
\* the jobs the pages of a log produced, in page order
PageJobs(log) ==
    IF log = <<>> THEN <<>> ELSE Head(log).jobs \o PageJobs(Tail(log))

\* C7: the pages 0..N-1 are attempted once each in increasing order and the
\* loop ends; a page whose navigation or parsing raised adds no job, keeps
\* the jobs of the pages before it and is followed by the remaining pages.
C7_WalkContinues ==
    /\ page <= num_pages
    /\ attempted = [i \in 1..page |-> i - 1]
    /\ Len(page_log) = page
    /\ walk_pc = "loop" => ENABLED NextWalk
    /\ walk_pc \in {"returned", "raised"} => page = num_pages
    /\ \A k \in 1..Len(page_log) :
          page_log[k].outcome # "ok" => page_log[k].jobs = <<>>
    /\ walk_pc = "loop" => all_jobs = PageJobs(page_log)
    /\ walk_pc = "returned" /\ fallback_on = <<>> => all_jobs = PageJobs(page_log)

\* page 0 gave jobs, page 1 raised, and the walk returned the jobs of page 0
C7_Witness ==
    /\ walk_pc = "returned"
    /\ num_pages = 2
    /\ page_log[1].outcome = "ok"
    /\ page_log[1].jobs # <<>>
    /\ page_log[2].outcome # "ok"
    /\ all_jobs = page_log[1].jobs

\* the generic pass was taken (to its end or not)
AlternativeTaken == fallback_on # <<>> \/ walk_pc = "raised"

\* C8: the generic fallback runs only when the structured cascade found zero
\* cards: it never runs in a walk in which a structured card was located,
\* and the collection never holds both a fallback job and a card job.
C8_FallbackOnlyWithoutCards ==
    /\ AlternativeTaken => \A k \in 1..Len(page_log) : page_log[k].located = 0
    /\ ~({"card", "fallback"} \subseteq Range(origin))

C10_OutputOrder ==
    enrich_pc = "returned" =>
        LET out == all_processed_jobs
            n   == Cardinality({h \in 1..Len(input_jobs) : input_jobs[h].Job_ID # NA})
        IN  /\ Len(out) = Len(input_jobs)
            /\ Range(out) = 1..Len(input_jobs)
            /\ \A i \in 1..Len(out) :
                  /\ i <= n => input_jobs[out[i]].Job_ID # NA
                  /\ i > n => /\ input_jobs[out[i]].Job_ID = NA
                              /\ all_jobs[out[i]] = input_jobs[out[i]]
                  /\ all_jobs[out[i]].Job_ID = input_jobs[out[i]].Job_ID
            /\ \A i, j \in 1..Len(out) :
                  i < j /\ (j <= n \/ i > n) => out[i] < out[j]

\* an input that starts with an 'N/A' job and holds two of them: they come
\* last, in their order
C10_Witness ==
    /\ enrich_pc = "returned"
    /\ Len(input_jobs) = 3
    /\ input_jobs[1].Job_ID = NA
    /\ input_jobs[2].Job_ID # NA
    /\ input_jobs[3].Job_ID = NA
    /\ input_jobs[1] # input_jobs[3]
    /\ all_processed_jobs = <<2, 1, 3>>
    /\ all_jobs[2].job_description = all_jobs[2].Job_ID

\* C11: for n jobs with an identifier and batch size B >= 1 exactly
\* ceil(n/B) batches are formed; concatenated in order they are the list of
\* the jobs with an identifier; every batch but the last holds exactly B jobs,
\* the last between 1 and B, and none is empty.
C11_BatchShapes ==
    enrich_pc \in {"batch", "gather", "returned"} =>
        LET n == Cardinality({h \in 1..Len(input_jobs) : input_jobs[h].Job_ID # NA})
            B == batch_size
        IN  /\ B >= 1
            /\ Len(valid_jobs) = n
            /\ \A i \in 1..n : input_jobs[valid_jobs[i]].Job_ID # NA
            /\ \A i, j \in 1..n : i < j => valid_jobs[i] < valid_jobs[j]
            /\ Len(batches) * B >= n
            /\ (Len(batches) - 1) * B < n \/ (n = 0 /\ Len(batches) = 0)
            /\ Flatten(batches) = valid_jobs
            /\ \A k \in 1..Len(batches) :
                  /\ Len(batches[k]) >= 1
                  /\ Len(batches[k]) <= B
                  /\ k < Len(batches) => Len(batches[k]) = B

\* three jobs with an identifier in batches of two: a batch of two, then a
\* batch of one
C11_Witness ==
    /\ enrich_pc = "returned"
    /\ batch_size = 2
    /\ Len(valid_jobs) = 3
    /\ Len(batches) = 2
    /\ Len(batches[1]) = 2
    /\ Len(batches[2]) = 1

\* the <<batch, position>> pairs of the batches formed
Positions == {key \in (1..Len(batches)) \X (1..MaxJobs + 1) :
                 key[2] <= Len(batches[key[1]])}

\* C12: in one call of process_all_jobs exactly one fetch is started for each
\* job with an identifier and none for a job with identifier 'N/A'; a fetch
\* that failed is not started again; job.update is called exactly once on
\* each job with an identifier and never on a job without one.
C12_OneFetchPerRecord ==
    /\ \A key \in DOMAIN fetch_log :
          /\ fetch_log[key].starts = 1
          /\ fetch_log[key].job_id # NA
          /\ key \in Positions
          /\ fetch_log[key].job_id = JobAt(key).Job_ID
    /\ \A h \in 1..Len(writes) :
          /\ writes[h] <= 1
          /\ all_jobs[h].Job_ID = NA => writes[h] = 0
    /\ enrich_pc = "returned" =>
          /\ DOMAIN fetch_log = Positions
          /\ Cardinality(DOMAIN fetch_log)
                 = Cardinality({h \in 1..Len(all_jobs) : all_jobs[h].Job_ID # NA})
          /\ \A key \in DOMAIN fetch_log : fetch_log[key].done
          /\ \A h \in 1..Len(writes) : all_jobs[h].Job_ID # NA => writes[h] = 1

\* a run over a job whose fetch failed, a job whose fetch succeeded and a job
\* without identifier: two fetches were started, one update was made on each
\* of the first two jobs and none on the third
C12_Witness ==
    /\ enrich_pc = "returned"
    /\ Len(all_jobs) = 3
    /\ all_jobs[3].Job_ID = NA
    /\ Cardinality(DOMAIN fetch_log) = 2
    /\ \E k1, k2 \in DOMAIN fetch_log :
          /\ fetch_log[k1].failed /\ fetch_log[k1].starts = 1
          /\ ~fetch_log[k2].failed
    /\ writes = <<1, 1, 0>>

\* the records of js that have an identifier
Resolved(js) == {i \in 1..Len(js) : js[i].Job_ID # NA}

\* C13: in every call of save_jobs_to_database a record with identifier
\* 'N/A' sends no statement to the store and is counted in none of inserted,
\* updated, failed; when the record loop ends inserted + updated + failed is
\* the number of records with an identifier; no row is ever keyed 'N/A'.
C13_UnresolvedSkipped ==
    /\ NA \notin DOMAIN store
    /\ NA \notin DOMAIN txn
    /\ save_pc = "records" =>
          /\ \A i \in 1..Len(save_log) :
                jobs[i].Job_ID = NA =>
                    save_log[i].ops = <<>> /\ save_log[i].result = "skipped"
          /\ successful_inserts + successful_updates + failed_operations
                 = Cardinality({i \in Resolved(jobs) : i < job_no})
    /\ \A n \in 1..Len(calls) :
          LET c == calls[n]
          IN  /\ \A i \in 1..Len(c.log) :
                    /\ c.jobs[i].Job_ID = NA <=> c.log[i].result = "skipped"
                    /\ c.jobs[i].Job_ID = NA => c.log[i].ops = <<>>
                    /\ c.jobs[i].Job_ID # NA => c.log[i].ops # <<>>
              /\ c.inserted + c.updated + c.failed = Cardinality(Resolved(c.jobs))
              /\ c.inserted = Cardinality({i \in 1..Len(c.log) : c.log[i].result = "inserted"})
              /\ c.updated = Cardinality({i \in 1..Len(c.log) : c.log[i].result = "updated"})
              /\ NA \notin DOMAIN c.after

\* a call over a record without identifier between two records with one: the
\* counts add up to two and the store holds no row for the middle record
C13_Witness ==
    /\ save_pc = "returned"
    /\ Len(calls) = 1
    /\ LET c == calls[1]
       IN  /\ Len(c.jobs) = 3
           /\ c.jobs[1].Job_ID # NA
           /\ c.jobs[2].Job_ID = NA
           /\ c.jobs[3].Job_ID # NA
           /\ c.log[2].result = "skipped"
           /\ c.inserted + c.updated + c.failed = 2
           /\ c.committed
           /\ Cardinality(DOMAIN c.after) <= 2

\* a '.partial' export was attempted
PartialAttempted == \E i \in 1..Len(exports) : exports[i].file = "partial"

\* a persistence or export step ran to completion: a call of
\* save_jobs_to_database whose transaction was committed, or the export file
\* written
StepCompleted ==
    \/ \E n \in 1..Len(calls) : calls[n].committed
    \/ \E i \in 1..Len(exports) :
          exports[i].file = "main" /\ exports[i].event = "written"

\* C14: when an exception ends the try block of the run after the walk
\* returned at least one job, a '.partial' export of every job collected is
\* attempted; and no run that collected a job ends without a completed
\* persistence or export step or a '.partial' export attempt.
C14_ArtifactOrPartial ==
    run_pc = "done" /\ all_jobs # <<>> =>
        /\ run_error # "none" =>
              \E i \in 1..Len(exports) :
                  /\ exports[i].file = "partial"
                  /\ Len(exports[i].rows) = Len(all_jobs)
        /\ StepCompleted \/ PartialAttempted

\* the final collection of the run
FinalJobs == [i \in 1..Len(run_processed) |-> all_jobs[run_processed[i]]]

\* C15: at the end of a run that met no fatal error the export file holds
\* one row per job of the final collection, the jobs with identifier 'N/A'
\* included, in place of whatever it held before.
C15_ExportOnSuccess ==
    run_pc = "done" /\ run_error = "none" /\ run_processed # <<>> =>
        files.main = CsvRows(FinalJobs)

CountLog(level, event) ==
    Cardinality({i \in 1..Len(run_log) : run_log[i] = LogEntry(level, event)})

\* C16: every structured card located either gave a job or a logged
\* warning; in a run that reaches the persistence call every job of the
\* collection gets exactly one outcome there (inserted, updated, failed with
\* an error logged, skipped with a warning logged); in a run that does not,
\* the error that ended it is logged.
C16_NothingDroppedSilently ==
    /\ run_pc \notin {"idle", "setup", "scrape"} =>
          Len(run_cards) = Cardinality({i \in 1..Len(origin) : origin[i] = "card"})
                              + CountLog("warning", "card")
    /\ run_pc = "done" /\ all_jobs # <<>> =>
          IF run_error = "none"
          THEN /\ Len(calls) = 1
               /\ Len(run_processed) = Len(all_jobs)
               /\ Range(run_processed) = 1..Len(all_jobs)
               /\ LET c == calls[1]
                  IN  /\ c.jobs = FinalJobs
                      /\ Len(c.log) = Len(c.jobs)
                      /\ \A i \in 1..Len(c.log) :
                            /\ c.log[i].job_id = c.jobs[i].Job_ID
                            /\ c.log[i].result \in
                                  {"inserted", "updated", "failed", "skipped"}
                      /\ c.inserted + c.updated + CountResult(c.log, "failed")
                            + CountResult(c.log, "skipped") = Len(all_jobs)
                      /\ CountLog("error", "record") = CountResult(c.log, "failed")
                      /\ CountLog("warning", "skipped") = CountResult(c.log, "skipped")
          ELSE CountLog("error", "run") = 1

\* a run that located two cards: the extraction of one raised and a warning
\* was logged, the other gave a job whose write failed and an error was logged
C16_Witness ==
    /\ run_pc = "done"
    /\ run_error = "none"
    /\ Len(run_cards) = 2
    /\ Len(all_jobs) = 1
    /\ origin = <<"card">>
    /\ CountLog("warning", "card") = 1
    /\ calls[1].log[1].result = "failed"
    /\ CountLog("error", "record") = 1

\* a step that throws, taken as a step that finds nothing
QuietSteps(steps) ==
    [k \in 1..Len(steps) |-> IF steps[k] = "raises" THEN "absent" ELSE steps[k]]

\* the card with every throwing lookup finding nothing instead
Quiet(card) ==
    [data_job_id |-> card.data_job_id,
     title |-> QuietSteps(card.title),
     company |-> QuietSteps(card.company),
     location |-> QuietSteps(card.location),
     link |-> IF card.link = "raises" THEN Absent ELSE card.link,
     url_parse |-> "ok"]

\* C17: when one lookup of a field cascade throws, the field falls through
\* to its next step (the sentinel after the last), the other fields are what
\* they would be without the throw, and a job entry is produced: the
\* extraction of a card never ends in an exception.
C17_ThrowFallsThrough ==
    field_pc = "returned" =>
        /\ ~card_result.raised
        /\ card_result.job = extract_job_data_from_card(Quiet(job_card)).job

\* the lowest-numbered step that finds its target, 0 when none does
FirstFound(steps) ==
    IF \E k \in 1..Len(steps) : steps[k] = "found"
    THEN MinOf({k \in 1..Len(steps) : steps[k] = "found"})
    ELSE 0

\* the value a cascade owes: the text of the first step that finds its
\* target, the sentinel when none does
Owed(steps, texts) ==
    IF FirstFound(steps) = 0 THEN NA ELSE texts[FirstFound(steps)]

\* the steps a cascade may consult: those up to the first that finds its
\* target
MayConsult(steps) ==
    IF FirstFound(steps) = 0 THEN 1..Len(steps) ELSE 1..FirstFound(steps)

\* the link a card owes: its href, made absolute
OwedLink(card) ==
    IF card.link \in Hrefs
    THEN (IF StartsWithHttp(card.link) THEN card.link
          ELSE base_linkedin_url \o card.link)
    ELSE NA

\* what each step of the identifier cascade finds in a card
IdSteps(card) ==
    <<IF card.data_job_id # Absent THEN "found" ELSE "absent",
      IF OwedLink(card) # NA /\ AtPartDigits(OwedLink(card)) # ""
      THEN "found" ELSE "absent",
      IF OwedLink(card) # NA /\ RegexId(OwedLink(card)) # Absent
         /\ card.url_parse = "ok"
      THEN "found" ELSE "absent">>

IdTexts(card) ==
    <<card.data_job_id, AtPartDigits(OwedLink(card)), RegexId(OwedLink(card))>>

\* C18: for title, company, location and identifier the job entry holds the
\* value of the lowest-numbered step of the field's cascade that finds its
\* target, 'N/A' when none does; no step after that one is consulted; a card
\* matching no title, company or location step gets 'N/A' for the three
\* while its link and identifier are what the card's link and attribute give.
C18_FirstStepWins ==
    field_pc = "returned" /\ ~card_result.raised =>
        LET job == card_result.job
            con == card_result.consulted
        IN  /\ job.Job_Title = Owed(job_card.title, TitleTexts)
            /\ job.Company_Name = Owed(job_card.company, CompanyTexts)
            /\ job.Location = Owed(job_card.location, LocationTexts)
            /\ job.Job_ID = Owed(IdSteps(job_card), IdTexts(job_card))
            /\ job.Job_URL = OwedLink(job_card)
            /\ con.title = MayConsult(job_card.title)
            /\ con.company = MayConsult(job_card.company)
            /\ con.location = MayConsult(job_card.location)
            /\ con.identifier \subseteq MayConsult(IdSteps(job_card))

\* a card whose title is found by steps 2 and 3 and by no step for company
\* and location, without data-job-id and with a link: the title is step 2's,
\* step 3 was not consulted, company and location are 'N/A', the identifier
\* comes from the link
C18_Witness ==
    /\ field_pc = "returned"
    /\ ~card_result.raised
    /\ job_card.title = Steps("absent", "found", "found")
    /\ job_card.company = Steps("absent", "absent", "absent")
    /\ job_card.location = Steps("absent", "absent", "absent")
    /\ job_card.data_job_id = Absent
    /\ card_result.job.Job_Title = TitleTexts[2]
    /\ card_result.consulted.title = {1, 2}
    /\ card_result.job.Company_Name = NA
    /\ card_result.job.Location = NA
    /\ card_result.job.Job_ID = "102"
    /\ card_result.job.Job_URL = "https://www.linkedin.com/jobs/view/analyst-102/?refId=1"

\* C19: a job of the generic fallback has company 'unknown', location
\* 'unknown' and its seven detail fields 'N/A'; a job of a structured card
\* has for company and for location a text of the card or 'N/A', never
\* 'unknown'.
C19_SentinelByOrigin ==
    /\ Len(origin) = Len(all_jobs)
    /\ \A i \in 1..Len(all_jobs) :
          /\ origin[i] = "fallback" =>
                /\ all_jobs[i].Company_Name = Unknown
                /\ all_jobs[i].Location = Unknown
                /\ Details(all_jobs[i]) = SentinelDetails
          /\ origin[i] = "card" =>
                /\ all_jobs[i].Company_Name \in Range(CompanyTexts) \cup {NA}
                /\ all_jobs[i].Location \in Range(LocationTexts) \cup {NA}
                /\ all_jobs[i].Company_Name # Unknown
                /\ all_jobs[i].Location # Unknown

\* a walk whose pages gave no job and whose generic pass gave two: both hold
\* 'unknown'
C19_Witness ==
    /\ walk_pc = "returned"
    /\ fallback_on # <<>>
    /\ Len(all_jobs) = 2
    /\ origin = <<"fallback", "fallback">>
    /\ all_jobs[1].Company_Name = Unknown
    /\ all_jobs[2].Location = Unknown
    /\ all_jobs[1].Job_ID # all_jobs[2].Job_ID

\* C20: the URL of page 0 has no start parameter, the URL of page k > 0 has
\* start = 25 * k (50 for page 2), and the keywords and location parts are
\* the same on every page of a search: the arguments with each space
\* replaced by %20.
C20_PageOffset ==
    /\ Len(search_urls) = search_page
    /\ \A i \in 1..Len(search_urls) :
          LET url == search_urls[i]
              k   == i - 1
          IN  /\ k = 0 => url.start = <<>>
              /\ k > 0 => url.start = <<25 * k>>
              /\ url.keywords = search_urls[1].keywords
              /\ url.location = search_urls[1].location
              /\ Len(url.keywords) = Len(search_title)
              /\ \A j \in 1..Len(search_title) :
                    /\ url.keywords[j] # " "
                    /\ search_title[j] # " " => url.keywords[j] = search_title[j]
                    /\ search_title[j] = " " => url.keywords[j] = "%20"
              /\ Len(url.location) = Len(search_location)
              /\ \A j \in 1..Len(search_location) :
                    /\ url.location[j] # " "
                    /\ search_location[j] # " " => url.location[j] = search_location[j]
                    /\ search_location[j] = " " => url.location[j] = "%20"

\* a search for 'AI Engineer' over three pages: no start on page 0, 25 on
\* page 1, 50 on page 2
C20_Witness ==
    /\ search_title = <<"AI", " ", "Engineer">>
    /\ Len(search_urls) = 3
    /\ search_urls[1].start = <<>>
    /\ search_urls[2].start = <<25>>
    /\ search_urls[3].start = <<50>>
    /\ search_urls[3].keywords = <<"AI", "%20", "Engineer">>

\* C21: in one call of save_jobs_to_database every record of the batch, the
\* records without identifier included, carries the same date_scraped: the
\* timestamp taken at the start of the call, in place before the first
\* statement is sent to the store, and the one the rows written by the call
\* hold; before the first call no record carries a date_scraped.
C21_UniformTimestamp ==
    /\ save_pc = "call" /\ calls = <<>> =>
          \A i \in 1..Len(jobs) : jobs[i].date_scraped = Absent
    /\ save_pc = "records" =>
          /\ current_time = clock
          /\ \A i \in 1..Len(jobs) : jobs[i].date_scraped = current_time
          /\ \A id \in DOMAIN txn :
                (\E i \in 1..Len(save_log) :
                    save_log[i].job_id = id /\ save_log[i].result \in Written)
                    => txn[id].date_scraped = current_time
    /\ \A n \in 1..Len(calls) :
          LET c == calls[n]
          IN  /\ \A i, j \in 1..Len(c.jobs) :
                    /\ c.jobs[i].date_scraped = c.jobs[j].date_scraped
                    /\ c.jobs[i].date_scraped = n
              /\ c.committed =>
                    \A i \in 1..Len(c.log) :
                        c.log[i].result \in Written =>
                            c.after[c.jobs[i].Job_ID].date_scraped = n

\* the second call over three records, one of them without identifier: the
\* three carry the second call's timestamp, and so do the two rows of the
\* store
C21_Witness ==
    /\ save_pc = "returned"
    /\ Len(calls) = 2
    /\ Len(jobs) = 3
    /\ \E i \in 1..3 : jobs[i].Job_ID = NA
    /\ \A i \in 1..3 : jobs[i].date_scraped = 2
    /\ calls[1].jobs[1].date_scraped = 1
    /\ calls[2].committed
    /\ DOMAIN store = JobIds
    /\ \A id \in JobIds : store[id].date_scraped = 2

\* C23: the identifier of a job of the generic fallback is what the URL
\* steps of the identifier cascade (the 'at-' part, then the regular
\* expression) give for the job's URL, as extract_job_id computes it for a
\* card without data-job-id; 'N/A' only when both steps fail.
C23_FallbackIdIsCascade ==
    \A i \in 1..Len(all_jobs) :
        origin[i] = "fallback" =>
            all_jobs[i].Job_ID = extract_job_id(NoCard, all_jobs[i].Job_URL).value

\* C24: after enrichment each of the seven detail fields of every job is a
\* string, the text its detail page shows for the field or 'N/A', never None
\* and never missing, whichever steps of the fetch found their target, found
\* nothing or threw.
C24_DetailsNeverNull ==
    enrich_pc = "returned" =>
        \A h \in 1..Len(all_jobs) :
            \A f \in DetailFields :
                /\ Details(all_jobs[h])[f] # None
                /\ Details(all_jobs[h])[f] \in {NA, PageText(all_jobs[h].Job_ID, f)}

\* identifier, title, company, location and URL of a job
Identity(job) ==
    <<job.Job_ID, job.Job_Title, job.Company_Name, job.Location, job.Job_URL>>

\* C25: once the listing walk has returned, no step of the run adds, removes
\* or reorders a job or changes a job's identifier, title, company, location
\* or URL: the enrichment changes nothing but the seven detail fields, the
\* persistence call nothing but date_scraped, the handler and the finally
\* clause nothing at all.
C25_IdentityFrozen ==
    [][run_pc \notin {"idle", "setup", "scrape"} =>
          /\ Len(all_jobs') = Len(all_jobs)
          /\ \A i \in 1..Len(all_jobs) :
                /\ Identity(all_jobs'[i]) = Identity(all_jobs[i])
                /\ run_pc = "process" =>
                      all_jobs'[i].date_scraped = all_jobs[i].date_scraped
                /\ run_pc \in {"save", "handler_save"} =>
                      Details(all_jobs'[i]) = Details(all_jobs[i])
                /\ run_pc \in {"handler", "finally"} => all_jobs'[i] = all_jobs[i]
       ]_vars

\* the end of a run over a card with identifier 101: the job holds the text
\* of its detail page and the timestamp of the persistence call, and the
\* title, company and URL the card gave
C25_Witness ==
    /\ run_pc = "done"
    /\ run_error = "none"
    /\ Len(all_jobs) = 1
    /\ origin = <<"card">>
    /\ all_jobs[1].Job_ID = "101"
    /\ all_jobs[1].Job_Title = TitleTexts[1]
    /\ all_jobs[1].Company_Name = CompanyTexts[1]
    /\ all_jobs[1].Job_URL = base_linkedin_url \o "/jobs/view/engineer-at-acme-101?refId=1"
    /\ all_jobs[1].job_description = "101"
    /\ all_jobs[1].date_scraped = 1

\* the fetches of the current batch that are in flight, as keys of fetch_log
InFlight == {<<batch_no, t>> : t \in Running}

\* C26: every detail fetch whose browser starts gets an instance of its own,
\* never the browser of the listing walk and never one another fetch has or
\* had; the instance is alive while the fetch is in flight and is quit when
\* the fetch ends, whether it found its page or failed; between batches and
\* when process_all_jobs returns no browser created by a fetch is alive.
C26_OwnRenderer ==
    /\ \A key \in DOMAIN fetch_log :
          /\ fetch_log[key].renderer # WalkDriver
          /\ \A other \in DOMAIN fetch_log :
                other # key /\ fetch_log[key].renderer # NoRenderer
                    => fetch_log[other].renderer # fetch_log[key].renderer
          /\ fetch_log[key].done => fetch_log[key].renderer \notin renderers
          /\ key \in InFlight /\ enrich_pc = "gather" /\ fetch_log[key].renderer # NoRenderer
                => fetch_log[key].renderer \in renderers
    /\ enrich_pc = "gather" =>
          renderers = {WalkDriver}
                         \cup ({fetch_log[key].renderer : key \in InFlight} \ {NoRenderer})
    /\ enrich_pc \in {"start", "batch", "returned", "raised"} => renderers = {WalkDriver}

\* the fetch of the second batch is in flight with a live browser of its
\* own, after the two fetches of the first batch were in flight at once with
\* a browser each and quit them, one of them having failed on its page
C26_Witness ==
    /\ enrich_pc = "gather"
    /\ batch_no = 2
    /\ Running = {1}
    /\ peak_in_flight = 2
    /\ fetch_log[<<1, 1>>].failed
    /\ Cardinality({fetch_log[key].renderer : key \in DOMAIN fetch_log}
                       \ {NoRenderer}) = 3
    /\ renderers = {WalkDriver, fetch_log[<<2, 1>>].renderer}

\* the number of jobs with an identifier among the first i of a batch: the
\* position, among the fetches issued, of the fetch for the i-th job
FetchOf(batch, i) ==
    Cardinality({j \in 1..i : all_jobs[batch[j]].Job_ID # NA})

\* C28: after process_job_batch on any batch, jobs without identifier among
\* the others or not, every job with an identifier holds the details its own
\* fetch returned, and every job without one the details it came with.
C28_OwnResultInAnyBatch ==
    enrich_pc = "batch" /\ batch_no = 2 =>
        LET batch == batches[1]
        IN  \A i \in 1..Len(batch) :
                IF all_jobs[batch[i]].Job_ID # NA
                THEN /\ <<1, FetchOf(batch, i)>> \in DOMAIN fetch_log
                     /\ fetch_log[<<1, FetchOf(batch, i)>>].job_id
                            = all_jobs[batch[i]].Job_ID
                     /\ Details(all_jobs[batch[i]])
                            = fetch_log[<<1, FetchOf(batch, i)>>].details
                ELSE Details(all_jobs[batch[i]]) = SentinelDetails

\* the identifiers a call wrote
WrittenIds(c) ==
    {c.log[i].job_id : i \in {i \in 1..Len(c.log) : c.log[i].result \in Written}}

\* C29: after any sequence of calls, batches repeating an identifier
\* included, the store holds one row per identifier, keyed by it; inside a
\* call an insert is sent only for an identifier that neither the store nor
\* an earlier record of the call has (a repeated identifier is inserted once
\* and updated afterwards); the row of an identifier is that of the last
\* record written for it by the last committed call that wrote it.
C29_OneRowPerIdentifier ==
    /\ \A id \in DOMAIN store : store[id].Job_ID = id
    /\ \A id \in DOMAIN txn : txn[id].Job_ID = id
    /\ \A n \in 1..Len(calls) :
          LET c == calls[n]
              earlier(i) == \E j \in 1..(i - 1) :
                                /\ c.log[j].job_id = c.jobs[i].Job_ID
                                /\ c.log[j].result \in Written
          IN  /\ \A i \in 1..Len(c.log) :
                    /\ c.log[i].result = "inserted" =>
                          c.jobs[i].Job_ID \notin DOMAIN c.before /\ ~earlier(i)
                    /\ c.log[i].result = "updated" =>
                          c.jobs[i].Job_ID \in DOMAIN c.before \/ earlier(i)
                    /\ "insert" \in Range(c.log[i].ops) =>
                          c.jobs[i].Job_ID \notin DOMAIN c.before /\ ~earlier(i)
              /\ DOMAIN c.after
                    = DOMAIN c.before \cup (IF c.committed THEN WrittenIds(c) ELSE {})
              /\ \A id \in DOMAIN c.after :
                    IF c.committed /\ id \in WrittenIds(c)
                    THEN c.after[id] = LastWritten(c, id)
                    ELSE c.after[id] = c.before[id]
              /\ n > 1 => c.before = calls[n - 1].after
    /\ save_pc = "returned" /\ calls # <<>> => store = calls[Len(calls)].after

\* a call over two different records with identifier 101 into an empty
\* store: the first is inserted, the second updates it, and the one row of
\* the store is the second record
C29_Witness ==
    /\ save_pc = "returned"
    /\ Len(calls) = 1
    /\ LET c == calls[1]
       IN  /\ Len(c.jobs) = 2
           /\ c.jobs[1].Job_ID = "101"
           /\ c.jobs[2].Job_ID = "101"
           /\ c.jobs[1] # c.jobs[2]
           /\ c.before = <<>>
           /\ c.log[1].result = "inserted"
           /\ c.log[2].result = "updated"
           /\ c.committed
           /\ DOMAIN store = {"101"}
           /\ store["101"] = c.jobs[2]

\* the rows a call added to the store, and the updates of it that are in
\* the store
ActuallyInserted(c) == Cardinality(DOMAIN c.after \ DOMAIN c.before)
ActuallyUpdated(c) == IF c.committed THEN CountResult(c.log, "updated") ELSE 0

\* C30: when a call returns, the inserted and updated counts it reported are
\* the numbers of rows it inserted and updated in the store; a call whose
\* commit failed and was rolled back reported no insert and no update.
C30_ReportedIsStored ==
    \A n \in 1..Len(calls) :
        LET c == calls[n]
        IN  /\ c.inserted = ActuallyInserted(c)
            /\ c.updated = ActuallyUpdated(c)
            /\ ~c.committed => c.inserted = 0 /\ c.updated = 0

\* the response was parsed and passed the validation
Accepted(resp) == ParsesAsJson(resp) /\ Validates(resp)

\* C22: on every path analyze_resume_job_match gives its caller a pair:
\* the response and its usage when a response was accepted and saved,
\* (None, None) otherwise, for every max_retries >= 0 and whatever failed.
C22_AlwaysPair ==
    an_pc = "done" =>
        /\ an_result.kind = "pair"
        /\ \/ an_result = NonePair
           \/ /\ saves # <<>>
              /\ saves[Len(saves)].saved
              /\ an_result = Pair(<<saves[Len(saves)].response>>,
                                  <<UsageOf(saves[Len(saves)].response)>>)

\* C27: a call makes at most max_retries API calls, none after the first
\* response that was accepted, none when the job is not in the jobs table,
\* and writes the analysis row only from an accepted response (match_score
\* within 0..100).
C27_ApiCallsBounded ==
    /\ Len(api_calls) <= max_retries
    /\ \A i \in 1..(Len(api_calls) - 1) : ~Accepted(api_calls[i])
    /\ job_data_dict = None => api_calls = <<>>
    /\ \A k \in 1..Len(saves) : Accepted(saves[k].response)
    /\ \A id \in DOMAIN analyzed_txn :
          analyzed_txn[id] # OldAnalysis =>
              /\ analyzed_txn[id].match_score \in 0..100
              /\ saves # <<>>
              /\ saves[Len(saves)].saved
              /\ analyzed_txn[id].match_score = saves[Len(saves)].response.match_score

====
